---------------------------- MODULE Spec2Model ----------------------------
(***************************************************************************)
(* State-machine model of eth-metrics' per-epoch pipeline:                 *)
(*   - the epoch scheduler      Metrics.Loop / Metrics.ProcessEpoch        *)
(*   - the persistence layer    Database.StoreValidatorPerformance,        *)
(*                              Database.GetMissingEpochs                  *)
(*                                                                         *)
(* uint64 values are written in their two's-complement reading: a          *)
(* non-negative integer n stands for n, a negative integer n stands for    *)
(* the wrapped value 2^64 + n.  Addition and subtraction of small          *)
(* quantities coincide with integer + and - in this reading; comparisons   *)
(* go through U64Lt / U64Le, which order every wrapped value above every   *)
(* non-wrapped one.                                                        *)
(***************************************************************************)
EXTENDS Integers, Sequences, FiniteSets, TLC

\* ------------------------------------------------------------------ bounds
SlotsInEpoch == 2
MaxHeadSlot == 9
MaxBackfill == 2
MaxVal == 2
MaxReorg == 1

\* --------------------------------------------------------------- constants
\* Loop: "Leave some maring of 2 epochs"
EpochLag == 2

Pools == {"pool1", "pool2"}
Nil == <<>>
NoDebug == <<>>

VARIABLES
  \* configuration (config.Config)
  backfillEpochs,    \* Config.BackfillEpochs
  epochDebug,        \* Config.EpochDebug: NoDebug or the decimal epoch
  database,          \* Metrics.db is not nil (Config.DatabasePath is not empty)
  \* environment
  headSlot,          \* the consensus node's head slot
  topSlot,           \* the highest head slot the node reported so far
  \* Metrics.Loop locals and position
  lpc,               \* "poll" | "backfill" | "head" | "process" | "hung" | "exited"
                     \* | "crashed"
  prevEpoch,
  prevBeaconState,   \* Nil or <<epoch>>: the snapshot of that epoch
  currentEpoch,
  missingEpochs,
  mIdx,              \* position of the backfill range loop (1-based)
  \* the running ProcessEpoch call, Nil when none
  pe,
  \* the database
  table,             \* rows of t_pools_metrics_summary
  duties,            \* rows of t_proposal_duties
  \* observations of the run
  lastDiffer,        \* Nil or <<epoch, prev>>: the pair last handed to beaconState.Run
  handed,            \* Nil or <<epoch>>: the epoch last passed to ProcessEpoch
  failed,            \* epochs whose most recent ProcessEpoch call returned an error
  syncing,           \* Nil or what the NodeSyncing query of the running iteration gave
  headDone,          \* Nil or <<epoch>>: the head epoch last processed with success
  lastCall,          \* key -> the row of the last StoreValidatorPerformance call
  query,             \* Nil or the last GetMissingEpochs call and its result
  overwrote,         \* a StoreValidatorPerformance call replaced a row holding other values
  \* block-data collection of one epoch
  slotAnswers,       \* Nil or the node's answer for each slot of the epoch
  wdResult,          \* Nil or what Metrics.GetEpochWithdrawals returned
  bdResult,          \* Nil or what BlockData.GetEpochBlockData returned
  \* one GetRelayRewards call
  rEpoch,            \* its epoch argument
  spawned,           \* slots of the epoch whose workers were started
  work,              \* (slot index, relay) -> the worker goroutine of that work item
  relaySem,          \* relay -> tokens held in its semaphore channel
  results,           \* messages buffered in the results channel
  closed,            \* close(results) was called
  poolRewards,       \* the consumer's map pool -> sum
  slotsWithRewards,  \* the consumer's set of slots
  gErr,              \* Nil or the first error recorded by the errgroup
  heard,             \* observation: what the decoded responses of the call held
  returned,          \* Nil or what GetRelayRewards returned
  \* single calls of the pure operations
  callIn,           \* Nil or the block handed to GetProposerTip
  callOut          \* Nil or what GetProposerTip returned for it

schedVars == <<backfillEpochs, epochDebug, database, headSlot, topSlot, lpc, prevEpoch,
               prevBeaconState, currentEpoch, missingEpochs, mIdx, pe, duties,
               lastDiffer, handed, failed, syncing, headDone>>
dbVars == <<table, lastCall, query, overwrote>>
blockVars == <<slotAnswers, wdResult, bdResult>>
relayVars == <<rEpoch, spawned, work, relaySem, results, closed, poolRewards,
               slotsWithRewards, gErr, heard, returned>>
callVars == <<callIn, callOut>>
vars == <<schedVars, dbVars, blockVars, relayVars, callVars>>

\* ------------------------------------------------------------ uint64 order
U64Lt(a, b) == IF (a < 0) = (b < 0) THEN a < b ELSE a >= 0
U64Le(a, b) == a = b \/ U64Lt(a, b)
\* The largest uint64, 2^64 - 1.
U64Max == 0 - 1

\* ------------------------------------------------------ slots of an epoch
FirstSlot(epoch) == epoch * SlotsInEpoch
\* firstSlot + slotsInEpoch, the exclusive bound of the slot loops; in uint64 it
\* wraps to a value below firstSlot for the last epoch
SlotBound(epoch) == FirstSlot(epoch) + SlotsInEpoch
\* the slots for slot := firstSlot; slot < firstSlot+slotsInEpoch; slot++ visits
EpochSlots(epoch) ==
  IF U64Lt(FirstSlot(epoch), SlotBound(epoch))
  THEN FirstSlot(epoch)..(SlotBound(epoch) - 1) ELSE {}

RECURSIVE SortDesc(_)
\* sort.Slice(missingEpochs, less = >) over uint64
SortDesc(S) ==
  IF S = {} THEN <<>>
  ELSE LET m == CHOOSE x \in S : \A y \in S : U64Le(y, x)
       IN  <<m>> \o SortDesc(S \ {m})

RECURSIVE SortAsc(_)
\* sort.Slice(missingEpochs, less = <) over uint64
SortAsc(S) ==
  IF S = {} THEN <<>>
  ELSE LET m == CHOOSE x \in S : \A y \in S : U64Le(x, y)
       IN  <<m>> \o SortAsc(S \ {m})

SeqToSet(s) == {s[i] : i \in 1..Len(s)}

\* -------------------------------------------------------------- database
Key(r) == <<r.epoch, r.pool>>

\* The row the INSERT binds from a schemas.ValidatorPerformanceMetrics:
\* f_timestamp and f_epoch_timestamp both take validatorPerformance.Time.
\* The big.Int columns go through Int64(), which is exact below 2^63, the range
\* the values here are drawn from.
BoundRow(m) ==
  [epoch |-> m.epoch, pool |-> m.pool,
   timestamp |-> m.time, epochTimestamp |-> m.time,
   earned |-> m.earned, lost |-> m.lost, mev |-> m.mev]

\* INSERT ... without the ON CONFLICT clause being honoured: the old row stays
StoreValidatorPerformanceKeepOld(t, m) ==
  IF \E x \in t : Key(x) = Key(m) THEN t ELSE t \cup {BoundRow(m)}

\* INSERT ... ON CONFLICT (f_epoch, f_pool) DO UPDATE SET <every other column>
StoreValidatorPerformance(t, m) ==
  {x \in t : Key(x) # Key(m)} \cup {BoundRow(m)}

\* INSERT INTO t_proposal_duties ... ON CONFLICT (f_epoch, f_pool) DO UPDATE
StoreProposalDuties(d, epoch, pool, scheduled, proposed) ==
  {x \in d : ~(x.epoch = epoch /\ x.pool = pool)}
    \cup {[epoch |-> epoch, pool |-> pool, scheduled |-> scheduled, proposed |-> proposed]}

\* for epoch := currentEpoch - backfillEpochs + 1; epoch <= currentEpoch; epoch++
\* never ends when currentEpoch is the largest uint64.
GetMissingEpochsDiverges(C, W) == C = U64Max /\ U64Le(C - W + 1, C)

ExpectedEpochs(C, W) ==
  LET lo == C - W + 1 IN IF U64Le(lo, C) THEN lo..C ELSE {}

\* SELECT f_epoch FROM t_pools_metrics_summary WHERE f_epoch BETWEEN ? AND ?
ExistingEpochs(t, lo, hi) ==
  {x.epoch : x \in {y \in t : U64Le(lo, y.epoch) /\ U64Le(y.epoch, hi)}}

\* queryFails: QueryContext returned an error.
GetMissingEpochs(t, C, W, queryFails) ==
  IF queryFails THEN [err |-> TRUE, epochs |-> <<>>]
  ELSE [err |-> FALSE,
        epochs |-> SortAsc(ExpectedEpochs(C, W) \ ExistingEpochs(t, C - W + 1, C))]


\* database/sql refuses a uint64 argument whose high bit is set unless the
\* driver converts it itself.
HighBit(x) == x < 0
QueryHasHighBitArg(C, W) == HighBit(C - W + 1) \/ HighBit(C)

\* ------------------------------------------------------------- scheduler
Snapshot(e) == <<e>>
EpochOf(s) == s[1]
\* the slot of the state GetBeaconState(epoch) asks for: the epoch's first slot
StateSlot(s) == EpochOf(s) * SlotsInEpoch

Digits == [c \in {"0", "1", "2", "3", "4", "5", "6", "7", "8", "9"} |->
            CASE c = "0" -> 0 [] c = "1" -> 1 [] c = "2" -> 2 [] c = "3" -> 3
              [] c = "4" -> 4 [] c = "5" -> 5 [] c = "6" -> 6 [] c = "7" -> 7
              [] c = "8" -> 8 [] c = "9" -> 9]

RECURSIVE DigitsValue(_)
DigitsValue(s) ==
  IF s = <<>> THEN 0 ELSE 10 * DigitsValue(SubSeq(s, 1, Len(s) - 1)) + Digits[s[Len(s)]]

\* 2^64-1 and 2^63-1 in decimal
MaxUint64Digits ==
  <<"1", "8", "4", "4", "6", "7", "4", "4", "0", "7", "3", "7", "0", "9", "5", "5", "1", "6", "1", "5">>
MaxInt64Digits ==
  <<"9", "2", "2", "3", "3", "7", "2", "0", "3", "6", "8", "5", "4", "7", "7", "5", "8", "0", "7">>

\* the digits without their leading zeros
StripZeros(s) ==
  IF \A i \in DOMAIN s : s[i] = "0" THEN <<>>
  ELSE SubSeq(s, CHOOSE i \in DOMAIN s : s[i] # "0" /\ \A j \in 1..(i - 1) : s[j] = "0", Len(s))

\* the number written s (no leading zero) is greater than the number written max
DigitsAbove(s, max) ==
  \/ Len(s) > Len(max)
  \/ /\ Len(s) = Len(max)
     /\ \E i \in DOMAIN s :
          Digits[s[i]] > Digits[max[i]] /\ \A j \in 1..(i - 1) : s[j] = max[j]

\* 2^64-1 minus the number written s, for s of at most twenty digits
RECURSIVE BelowMaxUint64(_, _)
BelowMaxUint64(s, n) ==
  IF n = 0 THEN 0
  ELSE 10 * BelowMaxUint64(s, n - 1)
       + Digits[MaxUint64Digits[n]]
       - (IF n + Len(s) > Len(MaxUint64Digits)
          THEN Digits[s[n + Len(s) - Len(MaxUint64Digits)]] ELSE 0)

\* strconv.ParseUint(s, 10, 64): a non-empty run of decimal digits, no sign; a
\* value above 2^64-1 is ErrRange; a value from 2^63 on is the uint64 in its
\* two's-complement reading
ParseUint(s) ==
  IF s = <<>> \/ \E i \in 1..Len(s) : s[i] \notin DOMAIN Digits
  THEN [err |-> TRUE, val |-> 0]
  ELSE IF DigitsAbove(StripZeros(s), MaxUint64Digits)
  THEN [err |-> TRUE, val |-> 0]
  ELSE IF DigitsAbove(StripZeros(s), MaxInt64Digits)
  THEN [err |-> FALSE,
        val |-> 0 - 1 - BelowMaxUint64(StripZeros(s), Len(MaxUint64Digits))]
  ELSE [err |-> FALSE, val |-> DigitsValue(StripZeros(s))]

\* currentEpoch := uint64(HeadSlot)/uint64(slotsInEpoch) - 2
HeadEpoch(h) == (h \div SlotsInEpoch) - EpochLag

\* What NodeSyncing may report as HeadSlot when top is the highest head slot it
\* reported so far: the head advances, or a reorganisation takes it back, never
\* more than MaxReorg slots below top.
HeadSlots(top) == {x \in 0..MaxHeadSlot : x + MaxReorg >= top}

\* The highest head slot reported, after the report of h
Top(top, h) == IF h > top THEN h ELSE top

\* The consensus node serves an epoch once its first slot is not past the head.
NodeHas(e) == e >= 0 /\ e * SlotsInEpoch <= headSlot

\* The upstream calls of ProcessEpoch that return an error to it, in call order.
\* GetEpochWithdrawals is not among them: it returns a nil error on every path.
FailStages == {"duties", "proposed", "state", "prevState", "relayRewards"}

\* The metrics beaconState.Run derives for (pool, S_E, prev) and stores; the
\* scheduler model keeps one unit value per column.
PoolMetrics(epoch, pool) ==
  [epoch |-> epoch, pool |-> pool, time |-> 1, earned |-> 1, lost |-> 1, mev |-> 1]

\* --epoch-debug: unset, an epoch, the largest uint64, 2^64, no number
DebugStrings == {NoDebug, <<"1">>, MaxUint64Digits, [MaxUint64Digits EXCEPT ![20] = "6"], <<"x">>}

LoopInit ==
  /\ headSlot = 0
  /\ topSlot = 0
  /\ lpc = "poll"
  /\ prevEpoch = 0
  /\ prevBeaconState = Nil
  /\ currentEpoch = 0
  /\ missingEpochs = <<>>
  /\ mIdx = 1
  /\ pe = Nil
  /\ lastDiffer = Nil
  /\ handed = Nil
  /\ failed = {}
  /\ syncing = Nil
  /\ headDone = Nil

\* No store is opened: the tables are not there to be read or written
NoStore ==
  /\ table = {}
  /\ duties = {}
  /\ lastCall = <<>>
  /\ query = Nil
  /\ overwrote = FALSE

\* What the file --database-path names can hold when the run starts: nothing,
\* or the rows an earlier run stored for one pool of epoch 1
EarlierRuns ==
  {[table |-> {}, duties |-> {}, calls |-> <<>>],
   [table |-> StoreValidatorPerformance({}, PoolMetrics(1, "pool1")),
    duties |-> StoreProposalDuties({}, 1, "pool1", 0, 0),
    calls |-> (<<1, "pool1">> :> PoolMetrics(1, "pool1"))]}

\* db.New / CreateTables: sql.Open on the path and CREATE TABLE IF NOT EXISTS,
\* which keeps the rows of an earlier run; lastCall holds the calls that stored them
DbOpened ==
  /\ \E earlier \in EarlierRuns :
       table = earlier.table /\ duties = earlier.duties /\ lastCall = earlier.calls
  /\ query = Nil
  /\ overwrote = FALSE

\* no call of a pure operation was made
CallsIdle ==
  /\ callIn = Nil
  /\ callOut = Nil

BlocksIdle ==
  /\ slotAnswers = Nil
  /\ wdResult = Nil
  /\ bdResult = Nil

\* RELAY_SERVERS, cut down to two relays
RELAY_SERVERS == {"relayA", "relayB"}

\* one work item per (slot of the epoch, relay)
Items == (0..(SlotsInEpoch - 1)) \X RELAY_SERVERS

\* GetRelayRewards 56-75: empty maps, an unbuffered channel, one empty semaphore
\* per relay, no worker started
RelayFresh ==
  /\ spawned = 0
  /\ work = [w \in Items |-> [pc |-> "idle", body |-> <<>>, idx |-> 1]]
  /\ relaySem = [r \in RELAY_SERVERS |-> 0]
  /\ results = <<>>
  /\ closed = FALSE
  /\ poolRewards = <<>>
  /\ slotsWithRewards = {}
  /\ gErr = Nil
  /\ heard = [sums |-> <<>>, invalid |-> FALSE, slots |-> {}, unmapped |-> {}]
  /\ returned = Nil

RelayIdle == rEpoch = 0 /\ RelayFresh

SchedInit ==
  /\ backfillEpochs \in 0..MaxBackfill
  /\ epochDebug \in DebugStrings
  /\ database \in BOOLEAN
  /\ IF database THEN DbOpened ELSE NoStore
  /\ LoopInit /\ BlocksIdle /\ CallsIdle /\ RelayIdle

loopLocals == <<prevEpoch, prevBeaconState, currentEpoch, missingEpochs, mIdx>>
\* what the scheduler never touches
aside == <<lastCall, query, overwrote, blockVars, relayVars, callVars>>
observed == <<lastDiffer, handed, failed, headDone, aside>>
config == <<backfillEpochs, epochDebug, database>>

\* Loop 208-213: NodeSyncing returned an error; sleep and continue
PollError ==
  /\ lpc = "poll"
  /\ syncing' = <<"error">>
  /\ UNCHANGED <<config, headSlot, topSlot, lpc, loopLocals, pe, table, duties, observed>>

\* Loop 215-219 without the IsSyncing test: the iteration of a syncing node goes
\* on to the head call
PollSyncingProceeds ==
  /\ lpc = "poll"
  /\ syncing' = <<"syncing">>
  /\ \E h \in HeadSlots(topSlot) :
       headSlot' = h /\ topSlot' = Top(topSlot, h) /\ currentEpoch' = HeadEpoch(h)
  /\ missingEpochs' = <<>>
  /\ mIdx' = 1
  /\ lpc' = "head"
  /\ UNCHANGED <<config, prevEpoch, prevBeaconState, pe, table, duties, observed>>

\* Loop 215-219: the node reports that it is syncing; sleep and continue
PollSyncing ==
  /\ lpc = "poll"
  /\ syncing' = <<"syncing">>
  /\ \E h \in HeadSlots(topSlot) : headSlot' = h /\ topSlot' = Top(topSlot, h)
  /\ UNCHANGED <<config, lpc, loopLocals, pe, table, duties, observed>>

\* Loop 222-232: currentEpoch from the head slot, or from the debug override
SelectedEpoch(h) ==
  IF epochDebug # NoDebug THEN ParseUint(epochDebug).val ELSE HeadEpoch(h)

\* Loop 226-229: the debug epoch does not parse; log.Fatal ends the process
PollDebugFatal ==
  /\ lpc = "poll"
  /\ epochDebug # NoDebug /\ ParseUint(epochDebug).err
  /\ lpc' = "exited"
  /\ syncing' = <<"ok">>
  /\ \E h \in HeadSlots(topSlot) : headSlot' = h /\ topSlot' = Top(topSlot, h)
  /\ UNCHANGED <<config, loopLocals, pe, table, duties, observed>>

PollOk(h) ==
  /\ lpc = "poll"
  /\ h \in HeadSlots(topSlot)
  /\ ~(epochDebug # NoDebug /\ ParseUint(epochDebug).err)
  /\ syncing' = <<"ok">>
  /\ headSlot' = h
  /\ topSlot' = Top(topSlot, h)
  /\ currentEpoch' = SelectedEpoch(h)

\* Loop 234-238: nothing new; sleep and continue
PollIdle ==
  \E h \in HeadSlots(topSlot) :
    /\ PollOk(h)
    /\ U64Le(SelectedEpoch(h), prevEpoch)
    /\ UNCHANGED <<config, lpc, prevEpoch, prevBeaconState, missingEpochs, mIdx,
                   pe, table, duties, observed>>

\* Loop 240-245: GetMissingEpochs returned an error; sleep and continue
PollMissingError ==
  \E h \in HeadSlots(topSlot), dbError \in BOOLEAN, driverRejects \in BOOLEAN :
    LET C == SelectedEpoch(h)
        fails == dbError \/ (driverRejects /\ QueryHasHighBitArg(C, backfillEpochs))
    IN  /\ PollOk(h)
        /\ ~U64Le(C, prevEpoch)
        /\ ~GetMissingEpochsDiverges(C, backfillEpochs)
        /\ database
        /\ GetMissingEpochs(table, C, backfillEpochs, fails).err
        /\ UNCHANGED <<config, lpc, prevEpoch, prevBeaconState, missingEpochs, mIdx,
                       pe, table, duties, observed>>

\* Loop 240 with a nil Metrics.db: GetMissingEpochs (db.go 225-239) runs on the
\* nil receiver, builds expectedEpochs and dereferences the receiver at
\* a.db.QueryContext; the panic ends the process
PollNilHandle ==
  \E h \in HeadSlots(topSlot) :
    /\ PollOk(h)
    /\ ~U64Le(SelectedEpoch(h), prevEpoch)
    /\ ~GetMissingEpochsDiverges(SelectedEpoch(h), backfillEpochs)
    /\ ~database
    /\ lpc' = "crashed"
    /\ UNCHANGED <<config, prevEpoch, prevBeaconState, missingEpochs, mIdx,
                   pe, table, duties, observed>>

\* Loop 240: GetMissingEpochs never returns
PollMissingHangs ==
  \E h \in HeadSlots(topSlot) :
    /\ PollOk(h)
    /\ ~U64Le(SelectedEpoch(h), prevEpoch)
    /\ GetMissingEpochsDiverges(SelectedEpoch(h), backfillEpochs)
    /\ lpc' = "hung"
    /\ UNCHANGED <<config, prevEpoch, prevBeaconState, missingEpochs, mIdx,
                   pe, table, duties, observed>>

\* Loop 240-252: the pass is planned: the missing epochs, then the head epoch
PollPlan ==
  \E h \in HeadSlots(topSlot), driverRejects \in BOOLEAN :
    LET C == SelectedEpoch(h)
        res == GetMissingEpochs(table, C, backfillEpochs,
                                driverRejects /\ QueryHasHighBitArg(C, backfillEpochs))
    IN  /\ PollOk(h)
        /\ ~U64Le(C, prevEpoch)
        /\ ~GetMissingEpochsDiverges(C, backfillEpochs)
        /\ database
        /\ ~res.err
        /\ missingEpochs' = res.epochs
        /\ mIdx' = 1
        /\ lpc' = IF Len(res.epochs) > 0 THEN "backfill" ELSE "head"
        /\ UNCHANGED <<config, prevEpoch, prevBeaconState, pe, table, duties, observed>>

\* Loop 253-263: the check made on the carried snapshot before a backfill epoch
BackfillCheck(state, pEpoch, epoch) ==
  IF state # Nil
  THEN LET p == StateSlot(state) % SlotsInEpoch
       IN  [prevEpoch |-> p,
            prevBeaconState |-> IF (p + 1) # epoch THEN Nil ELSE state]
  ELSE [prevEpoch |-> pEpoch, prevBeaconState |-> state]

\* Loop 273: the head call takes the carried snapshot as it is
HeadCheck(state, pEpoch, epoch) ==
  [prevEpoch |-> pEpoch, prevBeaconState |-> state]

\* The position of Loop after the backfill epoch at index i is done with
AfterBackfill(i) == IF i + 1 > Len(missingEpochs) THEN "head" ELSE "backfill"

\* ProcessEpoch 294-336 succeeds: every upstream fetch answered
CanFetch(epoch, prev) == NodeHas(epoch) /\ (prev = Nil => NodeHas(epoch - 1))

\* ProcessEpoch 311-322: S_E, and S_{E-1} when no snapshot was handed in
\* (fetchedPrev: GetBeaconState(epoch - 1) was called)
Fetched(epoch, prev, ret) ==
  [epoch |-> epoch, cur |-> Snapshot(epoch),
   prev |-> IF prev = Nil THEN Snapshot(epoch - 1) ELSE prev,
   fetchedPrev |-> prev = Nil,
   left |-> Pools, ret |-> ret]

\* Loop 252-269 with ProcessEpoch 294-336 returning an error
BackfillEpochFails ==
  /\ lpc = "backfill"
  /\ LET epoch == missingEpochs[mIdx]
         chk == BackfillCheck(prevBeaconState, prevEpoch, epoch)
     IN  /\ \E failAt \in FailStages : failAt = "prevState" => chk.prevBeaconState = Nil
         /\ prevEpoch' = chk.prevEpoch
         /\ prevBeaconState' = chk.prevBeaconState
         /\ handed' = <<epoch>>
         /\ failed' = failed \cup {epoch}
  /\ mIdx' = mIdx + 1
  /\ lpc' = AfterBackfill(mIdx)
  /\ UNCHANGED <<config, headSlot, topSlot, syncing, currentEpoch, missingEpochs, pe, table, duties,
                 lastDiffer, headDone, aside>>

\* Loop 252-264 with ProcessEpoch 294-336 through: the pool loop starts
BackfillEpochFetched ==
  /\ lpc = "backfill"
  /\ LET epoch == missingEpochs[mIdx]
         chk == BackfillCheck(prevBeaconState, prevEpoch, epoch)
     IN  /\ CanFetch(epoch, chk.prevBeaconState)
         /\ prevEpoch' = chk.prevEpoch
         /\ prevBeaconState' = chk.prevBeaconState
         /\ handed' = <<epoch>>
         /\ failed' = failed \ {epoch}
         /\ pe' = Fetched(epoch, chk.prevBeaconState, "backfill")
  /\ lpc' = "process"
  /\ UNCHANGED <<config, headSlot, topSlot, syncing, currentEpoch, missingEpochs, mIdx, table, duties,
                 lastDiffer, headDone, aside>>

\* ProcessEpoch 333 -> GetEpochWithdrawals 385-412: one of the slots the loop
\* visits holds a block GetBlockWithdrawals (414-430) knows no fork of
\* (426-428), as the node may serve for any of them
UnknownForkBlock(epoch) == EpochSlots(epoch) # {}

\* Loop 254-259: Slot() of the carried state returns an error; prevEpoch is
\* assigned from the zero slot and log.Fatal ends the process
BackfillSlotFatal ==
  /\ lpc = "backfill"
  /\ prevBeaconState # Nil
  /\ prevEpoch' = 0 % SlotsInEpoch
  /\ lpc' = "exited"
  /\ UNCHANGED <<config, headSlot, topSlot, syncing, prevBeaconState, currentEpoch, missingEpochs,
                 mIdx, pe, table, duties, observed>>

\* Loop 252-264 with ProcessEpoch 294-330 through and log.Fatal under
\* GetEpochWithdrawals (333): the process ends with nothing stored for the epoch
BackfillEpochExits ==
  /\ lpc = "backfill"
  /\ LET epoch == missingEpochs[mIdx]
         chk == BackfillCheck(prevBeaconState, prevEpoch, epoch)
     IN  /\ CanFetch(epoch, chk.prevBeaconState)
         /\ UnknownForkBlock(epoch)
         /\ prevEpoch' = chk.prevEpoch
         /\ prevBeaconState' = chk.prevBeaconState
         /\ handed' = <<epoch>>
  /\ lpc' = "exited"
  /\ UNCHANGED <<config, headSlot, topSlot, syncing, currentEpoch, missingEpochs, mIdx, pe, table,
                 duties, lastDiffer, failed, headDone, aside>>

\* Loop 273 with ProcessEpoch 294-330 through and log.Fatal under
\* GetEpochWithdrawals (333)
HeadEpochExits ==
  /\ lpc = "head"
  /\ LET chk == HeadCheck(prevBeaconState, prevEpoch, currentEpoch)
     IN  /\ CanFetch(currentEpoch, chk.prevBeaconState)
         /\ UnknownForkBlock(currentEpoch)
         /\ prevEpoch' = chk.prevEpoch
         /\ prevBeaconState' = chk.prevBeaconState
  /\ handed' = <<currentEpoch>>
  /\ lpc' = "exited"
  /\ UNCHANGED <<config, headSlot, topSlot, syncing, currentEpoch, missingEpochs, mIdx, pe, table,
                 duties, lastDiffer, failed, headDone, aside>>

\* Loop 273-278 with ProcessEpoch 294-336 returning an error
HeadEpochFails ==
  /\ lpc = "head"
  /\ LET chk == HeadCheck(prevBeaconState, prevEpoch, currentEpoch)
     IN  /\ \E failAt \in FailStages : failAt = "prevState" => chk.prevBeaconState = Nil
         /\ prevEpoch' = chk.prevEpoch
         /\ prevBeaconState' = chk.prevBeaconState
  /\ handed' = <<currentEpoch>>
  /\ failed' = failed \cup {currentEpoch}
  /\ lpc' = "poll"
  /\ UNCHANGED <<config, headSlot, topSlot, syncing, currentEpoch, missingEpochs, mIdx, pe, table, duties,
                 lastDiffer, headDone, aside>>

\* Loop 273 with ProcessEpoch 294-336 through: the pool loop starts
HeadEpochFetched ==
  /\ lpc = "head"
  /\ LET chk == HeadCheck(prevBeaconState, prevEpoch, currentEpoch)
     IN  /\ CanFetch(currentEpoch, chk.prevBeaconState)
         /\ prevEpoch' = chk.prevEpoch
         /\ prevBeaconState' = chk.prevBeaconState
         /\ pe' = Fetched(currentEpoch, chk.prevBeaconState, "head")
  /\ handed' = <<currentEpoch>>
  /\ failed' = failed \ {currentEpoch}
  /\ lpc' = "process"
  /\ UNCHANGED <<config, headSlot, topSlot, syncing, currentEpoch, missingEpochs, mIdx, table, duties,
                 lastDiffer, headDone, aside>>

\* Where Loop goes when ProcessEpoch returns an error
AfterError(ret) == IF ret = "backfill" THEN AfterBackfill(mIdx) ELSE "poll"

\* ProcessEpoch 338-354 for one pool; the map range picks the pools in any order
ProcessPool ==
  /\ lpc = "process"
  /\ \E p \in pe.left :
       /\ lastDiffer' = <<pe.epoch, EpochOf(pe.prev)>>
       /\ table' = StoreValidatorPerformance(table, PoolMetrics(pe.epoch, p))
       /\ duties' = StoreProposalDuties(duties, pe.epoch, p, 0, 0)
       /\ pe' = [pe EXCEPT !.left = pe.left \ {p}]
  /\ UNCHANGED <<config, headSlot, topSlot, syncing, lpc, loopLocals, handed, failed, headDone, aside>>

\* ProcessEpoch 345-348: beaconState.Run returns an error, nothing stored for the pool
ProcessPoolRunFails ==
  /\ lpc = "process"
  /\ pe.left # {}
  /\ lastDiffer' = <<pe.epoch, EpochOf(pe.prev)>>
  /\ failed' = failed \cup {pe.epoch}
  /\ lpc' = AfterError(pe.ret)
  /\ mIdx' = IF pe.ret = "backfill" THEN mIdx + 1 ELSE mIdx
  /\ pe' = Nil
  /\ UNCHANGED <<config, headSlot, topSlot, syncing, prevEpoch, prevBeaconState, currentEpoch, missingEpochs,
                 table, duties, handed, headDone, aside>>

\* ProcessEpoch 350-353: the pool's row is stored, RunProposalMetrics returns an error
ProcessPoolDutiesFail ==
  /\ lpc = "process"
  /\ \E p \in pe.left :
       table' = StoreValidatorPerformance(table, PoolMetrics(pe.epoch, p))
  /\ lastDiffer' = <<pe.epoch, EpochOf(pe.prev)>>
  /\ failed' = failed \cup {pe.epoch}
  /\ lpc' = AfterError(pe.ret)
  /\ mIdx' = IF pe.ret = "backfill" THEN mIdx + 1 ELSE mIdx
  /\ pe' = Nil
  /\ UNCHANGED <<config, headSlot, topSlot, syncing, prevEpoch, prevBeaconState, currentEpoch, missingEpochs,
                 duties, handed, headDone, aside>>

\* ProcessEpoch 356 and Loop 270: a backfill epoch is done
BackfillEpochDone ==
  /\ lpc = "process" /\ pe.left = {} /\ pe.ret = "backfill"
  /\ prevBeaconState' = pe.cur
  /\ mIdx' = mIdx + 1
  /\ lpc' = AfterBackfill(mIdx)
  /\ pe' = Nil
  /\ UNCHANGED <<config, headSlot, topSlot, syncing, prevEpoch, currentEpoch, missingEpochs, table, duties,
                 observed>>

\* ProcessEpoch 356 and Loop 280-286: the head epoch is done
HeadEpochDone ==
  /\ lpc = "process" /\ pe.left = {} /\ pe.ret = "head"
  /\ prevBeaconState' = pe.cur
  /\ prevEpoch' = currentEpoch
  /\ lpc' = IF epochDebug # NoDebug THEN "exited" ELSE "poll"
  /\ headDone' = <<currentEpoch>>
  /\ pe' = Nil
  /\ UNCHANGED <<config, headSlot, topSlot, syncing, currentEpoch, missingEpochs, mIdx, table, duties,
                 lastDiffer, handed, failed, aside>>

Next ==
  \/ PollError \/ PollSyncing \/ PollDebugFatal \/ PollIdle \/ PollMissingError
  \/ PollNilHandle \/ PollMissingHangs \/ PollPlan
  \/ BackfillEpochFails \/ BackfillEpochFetched \/ HeadEpochFails \/ HeadEpochFetched
  \/ BackfillSlotFatal \/ BackfillEpochExits \/ HeadEpochExits
  \/ ProcessPool \/ ProcessPoolRunFails \/ ProcessPoolDutiesFail
  \/ BackfillEpochDone \/ HeadEpochDone

Spec == SchedInit /\ [][Next]_vars

\* Loop where the node, the relays and the store answer every call they can
\* answer: a window of 1..MaxWindow epochs, and only the steps in which no call
\* returns an error, but for the requests of a state no node has.
MaxWindow == 3

\* Loop 252-269: ProcessEpoch asks for the state of an epoch the node cannot
\* have, as GetBeaconState(0 - 1) of ProcessEpoch(0, nil), and returns the error
BackfillEpochUnavailable ==
  /\ lpc = "backfill"
  /\ ~CanFetch(missingEpochs[mIdx],
               BackfillCheck(prevBeaconState, prevEpoch, missingEpochs[mIdx]).prevBeaconState)
  /\ BackfillEpochFails

\* Loop 273-278: the same for the head call
HeadEpochUnavailable ==
  /\ lpc = "head"
  /\ ~CanFetch(currentEpoch, HeadCheck(prevBeaconState, prevEpoch, currentEpoch).prevBeaconState)
  /\ HeadEpochFails

SucceedInit ==
  /\ backfillEpochs \in 1..MaxWindow
  /\ epochDebug \in {NoDebug, <<"1">>}
  /\ database = TRUE
  /\ LoopInit /\ DbOpened /\ BlocksIdle /\ CallsIdle /\ RelayIdle

SucceedNext ==
  \/ PollSyncing \/ PollIdle \/ PollPlan
  \/ BackfillEpochFetched \/ HeadEpochFetched
  \/ BackfillEpochUnavailable \/ HeadEpochUnavailable
  \/ ProcessPool
  \/ BackfillEpochDone \/ HeadEpochDone

SpecLoopSucceeds == SucceedInit /\ [][SucceedNext]_vars

\* ------------------------------------------------- the database on its own
MaxDbEpoch == 2

\* schemas.ValidatorPerformanceMetrics values handed to StoreValidatorPerformance
MetricsInputs ==
  {[epoch |-> e, pool |-> p, time |-> v, earned |-> v, lost |-> v, mev |-> v] :
     e \in 0..MaxDbEpoch, p \in Pools, v \in 1..MaxVal}

DbInit ==
  /\ backfillEpochs = 0
  /\ epochDebug = NoDebug
  /\ database = TRUE
  /\ LoopInit /\ DbOpened /\ BlocksIdle /\ CallsIdle /\ RelayIdle

dbAside == <<schedVars, blockVars, relayVars, callVars>>

DbStore ==
  /\ query = Nil
  /\ \E m \in MetricsInputs :
       /\ table' = StoreValidatorPerformance(table, m)
       /\ lastCall' = [k \in DOMAIN lastCall \cup {Key(m)} |->
                         IF k = Key(m) THEN m ELSE lastCall[k]]
       /\ overwrote' = (overwrote \/ \E x \in table : Key(x) = Key(m) /\ x # BoundRow(m))
  /\ UNCHANGED <<query, dbAside>>

DbQuery ==
  /\ query = Nil
  /\ \E C \in 0..MaxDbEpoch, W \in 0..MaxBackfill, dbError \in BOOLEAN, driverRejects \in BOOLEAN :
       /\ ~GetMissingEpochsDiverges(C, W)
       /\ query' = [C |-> C, W |-> W, dbError |-> dbError,
                    res |-> GetMissingEpochs(table, C, W,
                              dbError \/ (driverRejects /\ QueryHasHighBitArg(C, W)))]
  /\ UNCHANGED <<table, lastCall, overwrote, dbAside>>

DbNext == DbStore \/ DbQuery

SpecDB == DbInit /\ [][DbNext]_vars

\* the sequences of StoreValidatorPerformance calls alone
DbStoreNext == DbStore

SpecDBStore == DbInit /\ [][DbStoreNext]_vars

\* ------------------------------------------------------- block collection
\* Error texts as word lists; strings.Contains(err.Error(), "NOT_FOUND") looks
\* for the word.
ErrNotFound == <<"GET", "failed", "with", "status", "404", "NOT_FOUND">>
ErrTimeout == <<"context", "deadline", "exceeded">>
ErrServer == <<"GET", "failed", "with", "status", "500">>

ErrContains(e, w) == \E i \in 1..Len(e) : e[i] = w

\* strings.Contains(err.Error(), "NOT_FOUND")
IsNotFound(e) == ErrContains(e, "NOT_FOUND")

\* A map[uint64]*big.Int as a function on its keys; the empty map is <<>>.
MapGet(m, k) == IF k \in DOMAIN m THEN m[k] ELSE 0
MapAdd(m, k, v) ==
  [x \in DOMAIN m \cup {k} |-> IF x = k THEN MapGet(m, k) + v ELSE m[x]]

\* A withdrawal replaces the amount held for its validator
RECURSIVE ExtractWithdrawalsOverwrite(_, _)
ExtractWithdrawalsOverwrite(ws, m) ==
  IF ws = <<>> THEN m
  ELSE ExtractWithdrawalsOverwrite(Tail(ws),
         [x \in DOMAIN m \cup {Head(ws).index} |->
            IF x = Head(ws).index THEN Head(ws).amount ELSE m[x]])

RECURSIVE ExtractWithdrawals(_, _)
\* range over the block's withdrawals: withdrawals[idx] += amount
ExtractWithdrawals(ws, m) ==
  IF ws = <<>> THEN m
  ELSE ExtractWithdrawals(Tail(ws), MapAdd(m, Head(ws).index, Head(ws).amount))

\* ------------------------------------------------ fork accessors and tips
\* [32]byte
ByteLen == 32

\* the variants of spec.VersionedSignedBeaconBlock, oldest first
Forks == <<"altair", "bellatrix", "capella", "deneb", "electra", "fulu">>
ForkSet == {Forks[i] : i \in 1..Len(Forks)}

\* n bytes of v, least significant first
RECURSIVE LittleEndian(_, _)
LittleEndian(v, n) ==
  IF n = 0 THEN <<>> ELSE <<v % 256>> \o LittleEndian(v \div 256, n - 1)

Reverse(b) == [i \in 1..Len(b) |-> b[Len(b) + 1 - i]]

\* uint256.Int.Bytes32(): the value as 32 bytes, most significant first
Bytes32(v) == Reverse(LittleEndian(v, ByteLen))

\* new(big.Int).SetBytes(b): b read as a big-endian unsigned integer
RECURSIVE SetBytes(_)
SetBytes(b) ==
  IF b = <<>> THEN 0 ELSE 256 * SetBytes(SubSeq(b, 1, Len(b) - 1)) + b[Len(b)]

\* An accessor returns a value, or log.Fatal ends the process: it has no error
\* among its results
Value(x) == [fatal |-> FALSE, err |-> FALSE, val |-> x]
Fatal == [fatal |-> TRUE, err |-> FALSE, val |-> 0]

\* BlockData.GetBlockWithdrawals
GetBlockWithdrawals(b) ==
  IF b.fork = "altair" THEN Value(<<>>)
  ELSE IF b.fork = "bellatrix" THEN Value(<<>>)
  ELSE IF b.fork \in {"capella", "deneb", "electra", "fulu"} THEN Value(b.withdrawals)
  ELSE Fatal

\* GetBlockWithdrawals of package metrics, which Metrics.GetEpochWithdrawals calls
GetBlockWithdrawalsNoFulu(b) ==
  IF b.fork = "altair" THEN Value(<<>>)
  ELSE IF b.fork = "bellatrix" THEN Value(<<>>)
  ELSE IF b.fork \in {"capella", "deneb", "electra"} THEN Value(b.withdrawals)
  ELSE Fatal

\* BlockData.GetBlockTransactions
GetBlockTransactions(b) ==
  IF b.fork = "altair" THEN Value(<<>>)
  ELSE IF b.fork \in {"bellatrix", "capella", "deneb", "electra", "fulu"} THEN Value(b.txs)
  ELSE Fatal

\* BlockData.GetBlockNumber
GetBlockNumber(b) ==
  IF b.fork = "altair" THEN Fatal
  ELSE IF b.fork \in {"bellatrix", "capella", "deneb", "electra", "fulu"}
       THEN Value(b.blockNumber)
  ELSE Fatal

\* BlockData.GetBaseFeePerGas: the base fee as 32 big-endian bytes; the payload
\* holds it as little-endian bytes before Deneb and as a uint256 from Deneb on
GetBaseFeePerGas(b) ==
  IF b.fork = "altair" THEN Fatal
  ELSE IF b.fork \in {"bellatrix", "capella"} THEN Value(Reverse(b.baseFeePerGas))
  ELSE IF b.fork \in {"deneb", "electra", "fulu"} THEN Value(Bytes32(b.baseFeePerGas))
  ELSE Fatal

\* BlockData.GetGasUsed
GetGasUsed(b) ==
  IF b.fork = "altair" THEN Fatal
  ELSE IF b.fork \in {"bellatrix", "capella", "deneb", "electra", "fulu"}
       THEN Value(b.gasUsed)
  ELSE Fatal

\* BlockData.GetProposerIndex
GetProposerIndex(b) ==
  IF b.fork \in ForkSet THEN Value(b.proposer) ELSE Fatal

\* the gas price charged for a transaction of type 2, 3 or 4
UsedGasPriceMin(tx, headerBaseFee) ==
  IF tx.gasFeeCap > tx.gasTipCap + headerBaseFee
  THEN tx.gasTipCap + headerBaseFee ELSE tx.gasFeeCap

\* GetProposerTip 147-154: tip := GasTipCap + header.BaseFee; the fee cap is
\* taken when gasFeeCap.Cmp(tip) > 0, tip otherwise
UsedGasPrice(tx, headerBaseFee) ==
  IF tx.gasFeeCap > tx.gasTipCap + headerBaseFee
  THEN tx.gasFeeCap ELSE tx.gasTipCap + headerBaseFee

\* a legacy fee without the gas used
LegacyTipFeeFlat(tx) == tx.gasPrice

\* GetProposerTip 144-145: tipFee.Mul(gasPrice, gasUsed)
LegacyTipFee(tx) == tx.gasPrice * tx.receipt.gasUsed

\* GetProposerTip without the comparison of the receipt's hash and with the
\* legacy price for every type it does not know
TipFeeUnverified(tx, headerBaseFee) ==
  IF ~tx.decodes THEN [err |-> TRUE, val |-> 0]
  ELSE IF tx.receipt.err THEN [err |-> TRUE, val |-> 0]
  ELSE IF tx.type \in {2, 3, 4}
       THEN [err |-> FALSE, val |-> UsedGasPrice(tx, headerBaseFee) * tx.receipt.gasUsed]
  ELSE [err |-> FALSE, val |-> LegacyTipFee(tx)]

\* GetProposerTip 123-158 for one transaction: its tipFee, or the error returned
TipFee(tx, headerBaseFee) ==
  IF ~tx.decodes THEN [err |-> TRUE, val |-> 0]
  ELSE IF tx.receipt.err THEN [err |-> TRUE, val |-> 0]
  ELSE IF ~tx.receipt.hashOk THEN [err |-> TRUE, val |-> 0]
  ELSE IF tx.type \in {0, 1} THEN [err |-> FALSE, val |-> LegacyTipFee(tx)]
  ELSE IF tx.type \in {2, 3, 4}
       THEN [err |-> FALSE, val |-> UsedGasPrice(tx, headerBaseFee) * tx.receipt.gasUsed]
  ELSE [err |-> TRUE, val |-> 0]

\* GetProposerTip 122-160: the loop over the block's transactions
RECURSIVE TipsFrom(_, _, _)
TipsFrom(txs, headerBaseFee, tips) ==
  IF txs = <<>> THEN [err |-> FALSE, val |-> tips]
  ELSE IF TipFee(Head(txs), headerBaseFee).err THEN [err |-> TRUE, val |-> 0]
  ELSE TipsFrom(Tail(txs), headerBaseFee, tips + TipFee(Head(txs), headerBaseFee).val)

\* GetProposerTip 161: burnt := gasUsed(block) * baseFeePerGas(block)
Burnt(b) == GetGasUsed(b).val * SetBytes(GetBaseFeePerGas(b).val)

\* BlockData.GetProposerTip
GetProposerTip(b) ==
  IF GetBlockNumber(b).fatal \/ GetBlockTransactions(b).fatal
  THEN [fatal |-> TRUE, err |-> FALSE, val |-> 0]
  ELSE IF b.header.err THEN [fatal |-> FALSE, err |-> TRUE, val |-> 0]
  ELSE IF GetBaseFeePerGas(b).fatal THEN [fatal |-> TRUE, err |-> FALSE, val |-> 0]
  ELSE LET tips == TipsFrom(GetBlockTransactions(b).val, b.header.baseFee, 0)
       IN IF tips.err THEN [fatal |-> FALSE, err |-> TRUE, val |-> 0]
          ELSE IF GetGasUsed(b).fatal THEN [fatal |-> TRUE, err |-> FALSE, val |-> 0]
          ELSE [fatal |-> FALSE, err |-> FALSE, val |-> tips.val - Burnt(b)]

RECURSIVE WithdrawalsFrom(_, _, _, _)
\* Metrics.GetEpochWithdrawals, the slot loop from `slot` on: any error of
\* SignedBeaconBlock is logged as "block not found" and the slot skipped.
WithdrawalsFrom(node, slot, bound, acc) ==
  IF ~U64Lt(slot, bound) THEN [fatal |-> FALSE, err |-> FALSE, withdrawals |-> acc]
  ELSE IF node[slot].err # Nil
       THEN WithdrawalsFrom(node, slot + 1, bound, acc)
       ELSE IF GetBlockWithdrawalsNoFulu(node[slot].block).fatal
            THEN [fatal |-> TRUE, err |-> FALSE, withdrawals |-> <<>>]
            ELSE WithdrawalsFrom(node, slot + 1, bound,
                   ExtractWithdrawals(GetBlockWithdrawalsNoFulu(node[slot].block).val, acc))

GetEpochWithdrawals(epoch, node) ==
  WithdrawalsFrom(node, FirstSlot(epoch), SlotBound(epoch), <<>>)

RECURSIVE BlockDataFrom(_, _, _, _)
\* BlockData.GetEpochBlockData, the slot loop from `slot` on
BlockDataFrom(node, slot, bound, data) ==
  IF ~U64Lt(slot, bound) THEN [fatal |-> FALSE, err |-> FALSE, data |-> data]
  ELSE IF node[slot].err # Nil
       THEN IF ~IsNotFound(node[slot].err)
            THEN [fatal |-> FALSE, err |-> TRUE, data |-> Nil]
            ELSE BlockDataFrom(node, slot + 1, bound, data)
       ELSE LET block == node[slot].block
                wd == ExtractWithdrawals(GetBlockWithdrawals(block).val, data.withdrawals)
                tip == GetProposerTip(block)
            IN  IF GetBlockWithdrawals(block).fatal \/ tip.fatal
                THEN [fatal |-> TRUE, err |-> FALSE, data |-> Nil]
                ELSE IF tip.err
                THEN [fatal |-> FALSE, err |-> TRUE, data |-> Nil]
                ELSE BlockDataFrom(node, slot + 1, bound,
                       [withdrawals |-> wd,
                        proposerTips |-> MapAdd(data.proposerTips,
                                                GetProposerIndex(block).val, tip.val)])

GetEpochBlockData(epoch, node) ==
  BlockDataFrom(node, FirstSlot(epoch), SlotBound(epoch),
                [withdrawals |-> <<>>, proposerTips |-> <<>>])

\* What the consensus node may answer for one slot
Withdrawal(i, a) == [index |-> i, amount |-> a]
WithdrawalLists ==
  {<<>>, <<Withdrawal(7, 1)>>, <<Withdrawal(7, 1), Withdrawal(7, 2)>>,
   <<Withdrawal(7, 1), Withdrawal(9, 2)>>}

\* types.Receipt of a transaction as the execution client returns it
Receipt(gasUsed) == [err |-> FALSE, gasUsed |-> gasUsed, hashOk |-> TRUE]

\* types.Transaction: GasPrice() of a dynamic-fee transaction is its fee cap
LegacyTx(type, gasPrice, gasUsed) ==
  [type |-> type, decodes |-> TRUE, gasPrice |-> gasPrice, gasTipCap |-> gasPrice,
   gasFeeCap |-> gasPrice, receipt |-> Receipt(gasUsed)]
DynamicFeeTx(type, gasTipCap, gasFeeCap, gasUsed) ==
  [type |-> type, decodes |-> TRUE, gasPrice |-> gasFeeCap, gasTipCap |-> gasTipCap,
   gasFeeCap |-> gasFeeCap, receipt |-> Receipt(gasUsed)]

RECURSIVE ReceiptsGas(_)
ReceiptsGas(txs) ==
  IF txs = <<>> THEN 0 ELSE Head(txs).receipt.gasUsed + ReceiptsGas(Tail(txs))

\* The execution payload's base fee in the representation of the fork
BaseFeeField(fork, v) ==
  IF fork \in {"bellatrix", "capella"} THEN LittleEndian(v, ByteLen) ELSE v

\* A signed beacon block of a fork with its execution payload, and what the
\* execution client answers for its header: fields a fork lacks are empty
Block(fork, proposer, withdrawals, txs, baseFee, headerErr) ==
  [fork |-> fork, proposer |-> proposer,
   withdrawals |-> IF fork \in {"altair", "bellatrix"} THEN <<>> ELSE withdrawals,
   txs |-> IF fork = "altair" THEN <<>> ELSE txs,
   blockNumber |-> IF fork = "altair" THEN 0 ELSE 1,
   gasUsed |-> IF fork = "altair" THEN 0 ELSE ReceiptsGas(txs),
   baseFeePerGas |-> IF fork = "altair" THEN 0 ELSE BaseFeeField(fork, baseFee),
   header |-> [err |-> headerErr, baseFee |-> baseFee]]

\* the execution side of the blocks of the collection: no header, a tip of 1, a tip of 3
Payloads ==
  {[txs |-> <<>>, headerErr |-> TRUE],
   [txs |-> <<LegacyTx(0, 2, 1)>>, headerErr |-> FALSE],
   [txs |-> <<LegacyTx(1, 4, 1)>>, headerErr |-> FALSE]}

\* A transaction whose receipt is of another transaction after a sound one, and
\* a transaction of a type GetProposerTip does not know
MalformedTxLists ==
  {<<LegacyTx(0, 2, 1), [LegacyTx(0, 1, 1) EXCEPT !.receipt.hashOk = FALSE]>>,
   <<LegacyTx(5, 1, 1)>>}

\* Deneb blocks of every kind, a Bellatrix and a Fulu block for each list of
\* withdrawals, and Deneb blocks with a malformed transaction
BlocksOfSlot ==
  {Block("deneb", p, w, x.txs, 1, x.headerErr) :
     p \in {7, 9}, w \in WithdrawalLists, x \in Payloads}
    \cup {Block(f, 7, w, <<LegacyTx(0, 2, 1)>>, 1, FALSE) :
            f \in {"bellatrix", "fulu"}, w \in WithdrawalLists}
    \cup {Block("deneb", 9, w, txs, 1, FALSE) :
            w \in {<<>>, <<Withdrawal(9, 2)>>}, txs \in MalformedTxLists}
SlotAnswers ==
  {[err |-> e, block |-> Nil] : e \in {ErrNotFound, ErrTimeout, ErrServer}}
    \cup {[err |-> Nil, block |-> b] : b \in BlocksOfSlot}
\* ------------------------------------------------ GetProposerTip, called alone
\* prices and fee caps run over 0..MaxFee, receipts' gas over 1..MaxGas, the
\* block's base fee over 0..MaxBaseFee
MaxFee == 3
MaxGas == 2
MaxBaseFee == 2

LegacyTxs ==
  {LegacyTx(t, p, g) : t \in {0, 1}, p \in 1..MaxFee, g \in 1..MaxGas}
DynamicFeeTxs ==
  {DynamicFeeTx(t.type, t.tip, t.cap, t.gas) :
     t \in [type : {2, 3, 4}, tip : 0..MaxFee, cap : 0..MaxFee, gas : 1..MaxGas]}
\* a transaction that does not decode, one whose receipt cannot be fetched, one
\* whose receipt is of another transaction, one of an unknown type
BrokenTxs ==
  {[LegacyTx(0, 1, 1) EXCEPT !.decodes = FALSE],
   [LegacyTx(0, 1, 1) EXCEPT !.receipt.err = TRUE],
   [LegacyTx(0, 1, 1) EXCEPT !.receipt.hashOk = FALSE],
   LegacyTx(5, 1, 1)}
Txs == LegacyTxs \cup DynamicFeeTxs \cup BrokenTxs

\* blocks of no, one and two transactions
TxLists ==
  {<<>>} \cup {<<t>> : t \in Txs}
    \cup {<<t, u>> : t \in Txs, u \in {LegacyTx(0, 2, 1), DynamicFeeTx(2, 1, 3, 2), LegacyTx(5, 1, 1)}}

TipBlocks ==
  {Block(Forks[f], 7, <<>>, txs, fee, FALSE) :
     f \in 1..Len(Forks), txs \in TxLists, fee \in 0..MaxBaseFee}
    \cup {Block(Forks[f], 7, <<>>, <<>>, 1, TRUE) : f \in 1..Len(Forks)}

TipInit ==
  /\ backfillEpochs = 0
  /\ epochDebug = NoDebug
  /\ database = TRUE
  /\ LoopInit /\ NoStore /\ BlocksIdle /\ CallsIdle /\ RelayIdle

\* GetProposerTip is called on one block
CallGetProposerTip ==
  /\ callIn = Nil
  /\ \E b \in TipBlocks :
       /\ callIn' = b
       /\ callOut' = GetProposerTip(b)
  /\ UNCHANGED <<schedVars, dbVars, blockVars, relayVars>>

TipNext == CallGetProposerTip

SpecTip == TipInit /\ [][TipNext]_vars

\* ------------------------------------------------ the accessors, called alone
\* the accessors of BlockData, and GetBlockWithdrawals of package metrics
Accessors ==
  {"GetBlockWithdrawals", "GetBlockWithdrawalsNoFulu", "GetBlockTransactions",
   "GetBlockNumber", "GetBaseFeePerGas", "GetGasUsed", "GetProposerIndex"}

Access(fn, b) ==
  CASE fn = "GetBlockWithdrawals" -> GetBlockWithdrawals(b)
    [] fn = "GetBlockWithdrawalsNoFulu" -> GetBlockWithdrawalsNoFulu(b)
    [] fn = "GetBlockTransactions" -> GetBlockTransactions(b)
    [] fn = "GetBlockNumber" -> GetBlockNumber(b)
    [] fn = "GetBaseFeePerGas" -> GetBaseFeePerGas(b)
    [] fn = "GetGasUsed" -> GetGasUsed(b)
    [] fn = "GetProposerIndex" -> GetProposerIndex(b)

AccessorBlocks ==
  {Block(Forks[f], p, w, txs, fee, FALSE) :
     f \in 1..Len(Forks), p \in {7, 9}, w \in WithdrawalLists,
     txs \in {<<>>, <<LegacyTx(0, 2, 1)>>}, fee \in 0..MaxBaseFee}

\* One accessor is called on one block
CallAccessor ==
  /\ callIn = Nil
  /\ \E fn \in Accessors, b \in AccessorBlocks :
       /\ callIn' = [fn |-> fn, block |-> b]
       /\ callOut' = Access(fn, b)
  /\ UNCHANGED <<schedVars, dbVars, blockVars, relayVars>>

AccessorsNext == CallAccessor

SpecAccessors == TipInit /\ [][AccessorsNext]_vars

\* ------------------------------------------------ the differ, for one pool
\* balances run over 0..MaxBalance gwei
MaxBalance == 2
\* phase0.FarFutureEpoch, as far as these epochs go
FarFutureEpoch == 9

\* A validator of a beacon state: its key, balance, epochs and the head, source
\* and target bits of its previous-epoch participation
Validator(k, bal, act, exit, bits) ==
  [pubkey |-> k, balance |-> bal, slashed |-> FALSE, activationEpoch |-> act,
   exitEpoch |-> exit, head |-> bits[1], source |-> bits[2], target |-> bits[3]]

\* pubkey -> index of the validators of a state, indexes counted from 0
PopulateKeysToIndexesMap(state) ==
  [k \in {state.validators[i].pubkey : i \in DOMAIN state.validators} |->
     (CHOOSE i \in DOMAIN state.validators : state.validators[i].pubkey = k) - 1]

\* the indexes of the keys the registry knows, the others skipped
RECURSIVE GetIndexesFromKeys(_, _)
GetIndexesFromKeys(keys, keyToIndex) ==
  IF keys = <<>> THEN <<>>
  ELSE (IF Head(keys) \in DOMAIN keyToIndex THEN <<keyToIndex[Head(keys)]>> ELSE <<>>)
       \o GetIndexesFromKeys(Tail(keys), keyToIndex)

\* active in the epoch the votes of S_e are about: activationEpoch <= e-1 < exitEpoch
IsActive(v, e) == v.activationEpoch <= e - 1 /\ e - 1 < v.exitEpoch

\* the balance delta of the validator at index i, withdrawals left out of the account
BalanceDeltaNoWithdrawals(i, cur, prev, withdrawals) ==
  cur.validators[i + 1].balance - prev.validators[i + 1].balance

\* balance(S_e) - balance(S_e-1) - withdrawals[index]
BalanceDelta(i, cur, prev, withdrawals) ==
  cur.validators[i + 1].balance - prev.validators[i + 1].balance - MapGet(withdrawals, i)

NoMetrics ==
  [nTotalVotes |-> 0, nIncorrectHead |-> 0, nIncorrectSource |-> 0, nIncorrectTarget |-> 0,
   nValidatingKeys |-> 0, nWithLessBalance |-> 0, earnedGwei |-> 0, lostGwei |-> 0, mevWei |-> 0]

\* the differ's pass over the resolved indexes: votes and balance of each active one
RECURSIVE DifferFrom(_, _, _, _, _)
DifferFrom(idxs, cur, prev, withdrawals, acc) ==
  IF idxs = <<>> THEN acc
  ELSE LET v == cur.validators[Head(idxs) + 1]
           d == BalanceDelta(Head(idxs), cur, prev, withdrawals)
       IN  IF ~IsActive(v, cur.epoch)
           THEN DifferFrom(Tail(idxs), cur, prev, withdrawals, acc)
           ELSE DifferFrom(Tail(idxs), cur, prev, withdrawals,
                  [acc EXCEPT
                     !.nTotalVotes = @ + 1,
                     !.nValidatingKeys = @ + 1,
                     !.nIncorrectHead = @ + (IF v.head THEN 0 ELSE 1),
                     !.nIncorrectSource = @ + (IF v.source THEN 0 ELSE 1),
                     !.nIncorrectTarget = @ + (IF v.target THEN 0 ELSE 1),
                     !.earnedGwei = @ + (IF d >= 0 THEN d ELSE 0),
                     !.lostGwei = @ + (IF d >= 0 THEN 0 ELSE 0 - d),
                     !.nWithLessBalance = @ + (IF d >= 0 THEN 0 ELSE 1)])

\* beaconState.Run: the metrics of one pool, which it persists
DifferRun(pubKeys, cur, prev, keyToIndex, relayRewards, withdrawals) ==
  [DifferFrom(GetIndexesFromKeys(pubKeys, keyToIndex), cur, prev, withdrawals, NoMetrics)
     EXCEPT !.mevWei = relayRewards]

\* The differ is handed no withdrawals
RunPoolNoWithdrawals(poolName, pubKeys, cur, prev, relayRewardsPerPool, withdrawals) ==
  DifferRun(pubKeys, cur, prev, PopulateKeysToIndexesMap(cur),
            MapGet(relayRewardsPerPool, poolName), <<>>)

\* The differ is handed the two snapshots in the other order
RunPoolSwapped(poolName, pubKeys, cur, prev, relayRewardsPerPool, withdrawals) ==
  DifferRun(pubKeys, prev, cur, PopulateKeysToIndexesMap(cur),
            MapGet(relayRewardsPerPool, poolName), withdrawals)

\* ProcessEpoch 338-348, for one pool: the pool's relay reward or 0, and the
\* call of beaconState.Run with the epoch's key map and withdrawals
RunPool(poolName, pubKeys, cur, prev, relayRewardsPerPool, withdrawals) ==
  DifferRun(pubKeys, cur, prev, PopulateKeysToIndexesMap(cur),
            MapGet(relayRewardsPerPool, poolName), withdrawals)

Participations == {<<h, t, g>> : h \in BOOLEAN, t \in BOOLEAN, g \in BOOLEAN}
\* S_e = S_2: validator 0 anything; validator 1 with all or no votes
DifferEpoch == 2
Lifetimes == {<<0, FarFutureEpoch>>, <<DifferEpoch, FarFutureEpoch>>, <<0, DifferEpoch - 1>>}
CurrentStates ==
  {[epoch |-> DifferEpoch,
    validators |-> <<Validator("k1", b1, l1[1], l1[2], p1),
                     Validator("k2", b2, l2[1], l2[2], p2)>>] :
     b1 \in 0..MaxBalance, b2 \in 0..MaxBalance, l1 \in Lifetimes, l2 \in Lifetimes,
     p1 \in Participations, p2 \in {<<TRUE, TRUE, TRUE>>, <<FALSE, FALSE, FALSE>>}}
PreviousStates ==
  {[epoch |-> DifferEpoch - 1,
    validators |-> <<Validator("k1", b1, 0, FarFutureEpoch, <<TRUE, TRUE, TRUE>>),
                     Validator("k2", b2, 0, FarFutureEpoch, <<TRUE, TRUE, TRUE>>)>>] :
     b1 \in {0, MaxBalance}, b2 \in {1}}
\* validator index -> gwei withdrawn in the epoch
WithdrawalMaps == {<<>>, 0 :> 1, 1 :> 1, 0 :> 1 @@ 1 :> 2}
\* the keys of a pool; "k9" is in no registry
PoolKeys == {<<"k1", "k9", "k2">>, <<"k2">>, <<"k9">>}

\* One iteration of ProcessEpoch's loop over the pools
CallRunPool ==
  /\ callIn = Nil
  /\ \E keys \in PoolKeys, cur \in CurrentStates, prev \in PreviousStates,
        wd \in WithdrawalMaps, mev \in {<<>>, "pool1" :> 5} :
       /\ callIn' = [poolName |-> "pool1", pubKeys |-> keys, cur |-> cur, prev |-> prev,
                     relayRewardsPerPool |-> mev, withdrawals |-> wd]
       /\ callOut' = RunPool("pool1", keys, cur, prev, mev, wd)
  /\ UNCHANGED <<schedVars, dbVars, blockVars, relayVars>>

DifferNext == CallRunPool

SpecDiffer == TipInit /\ [][DifferNext]_vars

\* ------------------------------------------------ ProcessEpoch's loop over the pools
\* relay rewards run over 1..MaxMev wei
MaxMev == 2
PoolNames == {"pool1", "pool2"}

\* The numbers are *big.Int: `heap` holds the value of every number allocated,
\* and a map or an argument holds the address of one.
\* The map GetRelayRewards returned: pool -> address of its reward
RewardMaps ==
  {m \in UNION {[ps -> 1..MaxMev] : ps \in SUBSET PoolNames} : TRUE}
RECURSIVE AllocFrom(_, _, _)
AllocFrom(m, pools, heap) ==
  IF pools = {} THEN [heap |-> heap, rewards |-> <<>>]
  ELSE LET pool == CHOOSE q \in pools : TRUE
           rest == AllocFrom(m, pools \ {pool}, Append(heap, m[pool]))
       IN  [heap |-> rest.heap, rewards |-> (pool :> Len(heap) + 1) @@ rest.rewards]

\* The argument is the map's own number when the pool has one
RelayRewardsArgShared(heap, rewards, poolName) ==
  IF poolName \in DOMAIN rewards
  THEN [heap |-> heap, addr |-> rewards[poolName]]
  ELSE [heap |-> Append(heap, 0), addr |-> Len(heap) + 1]

\* ProcessEpoch 341-344: relayRewards := big.NewInt(0), and the pool's reward
\* added to it when the map has one
RelayRewardsArg(heap, rewards, poolName) ==
  [heap |-> Append(heap, 0 + (IF poolName \in DOMAIN rewards THEN heap[rewards[poolName]] ELSE 0)),
   addr |-> Len(heap) + 1]

\* ProcessEpoch 327: the epoch's relay rewards arrive
StartPoolLoop ==
  /\ callIn = Nil
  /\ \E m \in RewardMaps :
       /\ callIn' = [fn |-> "poolLoop", rewards |-> m]
       /\ callOut' = [heap |-> AllocFrom(m, DOMAIN m, <<>>).heap,
                      rewards |-> AllocFrom(m, DOMAIN m, <<>>).rewards,
                      pending |-> PoolNames, handed |-> <<>>]
  /\ UNCHANGED <<schedVars, dbVars, blockVars, relayVars>>

\* ProcessEpoch 338-348 for one pool, the pools in the order the map's range
\* yields them: the argument is built and beaconState.Run called with it. Run
\* holds a pointer to the number and may leave any value in it.
PoolIteration ==
  /\ callIn # Nil
  /\ \E poolName \in callOut.pending, left \in 0..MaxMev :
       LET arg == RelayRewardsArg(callOut.heap, callOut.rewards, poolName)
       IN  callOut' = [heap |-> [arg.heap EXCEPT ![arg.addr] = left],
                       rewards |-> callOut.rewards,
                       pending |-> callOut.pending \ {poolName},
                       handed |-> (poolName :> arg.heap[arg.addr]) @@ callOut.handed]
  /\ UNCHANGED <<callIn, schedVars, dbVars, blockVars, relayVars>>

PoolLoopNext == StartPoolLoop \/ PoolIteration

SpecPoolLoop == TipInit /\ [][PoolLoopNext]_vars

\* ------------------------------------------------ ProcessEpoch, called alone
\* the epochs ProcessEpoch is called with run over 0..MaxPeEpoch
MaxPeEpoch == 3

\* One upstream call of ProcessEpoch and the epoch it asks for
UpstreamCall(fn, epoch) == [fn |-> fn, epoch |-> epoch]
PeError(calls) == [fatal |-> FALSE, err |-> TRUE, calls |-> calls, writes |-> <<>>]

\* ProcessEpoch 338-354 from the i-th pool of the map's range on: beaconState.Run
\* stores the pool's summary row, RunProposalMetrics its duties row, and the
\* loop returns at the first error, the rows of the earlier pools stored.
\* failAt and failIdx name the call that returns an error and its iteration.
RECURSIVE PoolLoop(_, _, _, _, _)
PoolLoop(epoch, order, i, failAt, failIdx) ==
  IF i > Len(order) THEN [err |-> FALSE, writes |-> <<>>]
  ELSE IF failAt = "run" /\ i = failIdx THEN [err |-> TRUE, writes |-> <<>>]
  ELSE IF failAt = "runProposalMetrics" /\ i = failIdx
  THEN [err |-> TRUE,
        writes |-> <<[table |-> "pools_metrics_summary", epoch |-> epoch, pool |-> order[i]]>>]
  ELSE [err |-> PoolLoop(epoch, order, i + 1, failAt, failIdx).err,
        writes |-> <<[table |-> "pools_metrics_summary", epoch |-> epoch, pool |-> order[i]],
                     [table |-> "proposal_duties", epoch |-> epoch, pool |-> order[i]]>>
                   \o PoolLoop(epoch, order, i + 1, failAt, failIdx).writes]

\* ProcessEpoch 317-322: GetBeaconState(epoch - 1) when no snapshot was
\* handed in; the subtraction is of uint64
PrevStateCalls(epoch, prev) ==
  IF prev = Nil THEN <<UpstreamCall("GetBeaconState", epoch - 1)>> ELSE <<>>

\* Metrics.ProcessEpoch: the upstream calls it makes in order, the rows it
\* stores and whether it returns an error or log.Fatal ends the process. failAt
\* names the call that returns an error (failIdx: in which iteration of the pool
\* loop), node is what the consensus node answers for the epoch's slots, order
\* the order in which the range yields the pools.
ProcessEpoch(epoch, prev, failAt, failIdx, node, order) ==
  LET c1 == <<UpstreamCall("GetProposalDuties", epoch)>>
      c2 == c1 \o <<UpstreamCall("GetProposedBlocks", epoch)>>
      c3 == c2 \o <<UpstreamCall("GetBeaconState", epoch)>>
      c4 == c3 \o PrevStateCalls(epoch, prev)
      c5 == c4 \o <<UpstreamCall("GetRelayRewards", epoch)>>
      c6 == c5 \o <<UpstreamCall("GetEpochWithdrawals", epoch)>>
      loop == PoolLoop(epoch, order, 1, failAt, failIdx)
  IN  IF failAt = "duties" THEN PeError(c1)
      ELSE IF failAt = "proposed" THEN PeError(c2)
      ELSE IF failAt = "proposalMetrics" THEN PeError(c2)
      ELSE IF failAt = "state" THEN PeError(c3)
      ELSE IF failAt = "prevState" /\ prev = Nil THEN PeError(c4)
      ELSE IF failAt = "relayRewards" THEN PeError(c5)
      ELSE IF GetEpochWithdrawals(epoch, node).fatal
      THEN [fatal |-> TRUE, err |-> FALSE, calls |-> c6, writes |-> <<>>]
      ELSE IF GetEpochWithdrawals(epoch, node).err THEN PeError(c6)
      ELSE [fatal |-> FALSE, err |-> loop.err, calls |-> c6, writes |-> loop.writes]

\* the blocks of the epoch's slots as the node answers: a Deneb block, a Fulu
\* block, or an error
PeSlotAnswers ==
  {[err |-> Nil, block |-> Block("deneb", 7, <<Withdrawal(7, 1)>>, <<>>, 1, FALSE)],
   [err |-> Nil, block |-> Block("fulu", 7, <<Withdrawal(7, 1)>>, <<>>, 1, FALSE)],
   [err |-> ErrNotFound, block |-> Nil], [err |-> ErrTimeout, block |-> Nil]}

\* the calls of ProcessEpoch that can return an error to it
PeFailures == FailStages \cup {"proposalMetrics", "run", "runProposalMetrics"}
\* the orders in which the range over validatorKeysPerPool can yield the pools
PoolOrders ==
  {o \in [1..Cardinality(Pools) -> Pools] : \A i, j \in DOMAIN o : i # j => o[i] # o[j]}

\* ProcessEpoch is called once
CallProcessEpoch ==
  /\ callIn = Nil
  /\ \E epoch \in 0..MaxPeEpoch, prev \in {Nil} \cup {Snapshot(e) : e \in 0..MaxPeEpoch},
        failAt \in PeFailures \cup {"none"}, failIdx \in 1..Cardinality(Pools),
        order \in PoolOrders :
       \E node \in [EpochSlots(epoch) -> PeSlotAnswers] :
         /\ callIn' = [fn |-> "ProcessEpoch", currentEpoch |-> epoch, prev |-> prev,
                       failAt |-> failAt, failIdx |-> failIdx, node |-> node,
                       order |-> order]
         /\ callOut' = ProcessEpoch(epoch, prev, failAt, failIdx, node, order)
  /\ UNCHANGED <<schedVars, dbVars, blockVars, relayVars>>

ProcessEpochNext == CallProcessEpoch

SpecProcessEpoch == TipInit /\ [][ProcessEpochNext]_vars

\* ------------------------------------------------ network stats
\* epochs run over 0..MaxStatEpoch, and the far future epoch 2^64-1
MaxStatEpoch == 2

NoStats(epoch) ==
  [Epoch |-> epoch, NOfActiveValidators |-> 0, NOfExitedValidators |-> 0,
   NOfSlashedValidators |-> 0]

\* A validator is counted as active whether or not it was counted as exited
RECURSIVE StatsFromOverlapping(_, _, _)
StatsFromOverlapping(validators, epoch, stats) ==
  IF validators = <<>> THEN stats
  ELSE LET val == Head(validators)
       IN  StatsFromOverlapping(Tail(validators), epoch,
             [stats EXCEPT
                !.NOfSlashedValidators = @ + (IF val.slashed THEN 1 ELSE 0),
                !.NOfExitedValidators = @ + (IF U64Le(val.exitEpoch, epoch) THEN 1 ELSE 0),
                !.NOfActiveValidators =
                   @ + (IF U64Le(val.activationEpoch, epoch) THEN 1 ELSE 0)])

\* GetNetworkStats 69-80: the loop over the state's validators
RECURSIVE StatsFrom(_, _, _)
StatsFrom(validators, epoch, stats) ==
  IF validators = <<>> THEN stats
  ELSE LET val == Head(validators)
       IN  StatsFrom(Tail(validators), epoch,
             [stats EXCEPT
                !.NOfSlashedValidators = @ + (IF val.slashed THEN 1 ELSE 0),
                !.NOfExitedValidators = @ + (IF U64Le(val.exitEpoch, epoch) THEN 1 ELSE 0),
                !.NOfActiveValidators =
                   @ + (IF ~U64Le(val.exitEpoch, epoch)
                           /\ U64Le(val.activationEpoch, epoch) THEN 1 ELSE 0)])

\* NetworkStats.GetNetworkStats
GetNetworkStats(epoch, beaconState) ==
  StatsFrom(beaconState.validators, epoch, NoStats(epoch))

StatEpochs == 0..MaxStatEpoch \cup {U64Max}
StatValidators ==
  {[Validator("k1", 1, a, x, <<TRUE, TRUE, TRUE>>) EXCEPT !.slashed = sl] :
     a \in StatEpochs, x \in StatEpochs, sl \in BOOLEAN}
\* TestGetNetworkStats_Success: slashed and exited at 1, exited at 0, exiting at 2
TestValidators ==
  <<[Validator("k1", 1, 0, 1, <<TRUE, TRUE, TRUE>>) EXCEPT !.slashed = TRUE],
    Validator("k2", 1, 0, 0, <<TRUE, TRUE, TRUE>>),
    Validator("k3", 1, 0, 2, <<TRUE, TRUE, TRUE>>)>>
\* states of no, one and two validators, and the state of the test
StatStates ==
  {[validators |-> vs] :
     vs \in {<<>>, TestValidators} \cup {<<v>> : v \in StatValidators}
              \cup {<<v, w>> : v \in StatValidators, w \in StatValidators}}

CallGetNetworkStats ==
  /\ callIn = Nil
  /\ \E epoch \in 0..MaxStatEpoch, state \in StatStates :
       /\ callIn' = [epoch |-> epoch, state |-> state]
       /\ callOut' = GetNetworkStats(epoch, state)
  /\ UNCHANGED <<schedVars, dbVars, blockVars, relayVars>>

NetworkStatsNext == CallGetNetworkStats

SpecNetworkStats == TipInit /\ [][NetworkStatsNext]_vars

\* ------------------------------------------------ loading the pools
\* Strings whose characters matter are sequences of one-character strings.
\* len(keyStr) != 98
KeyStrLen == 98
\* files hold up to MaxLines lines
MaxLines == 2

Str0x == <<"0", "x">>
DotTxt == <<".", "t", "x", "t">>

HasPrefix(s, pre) == Len(s) >= Len(pre) /\ SubSeq(s, 1, Len(pre)) = pre
HasSuffix(s, suf) == Len(s) >= Len(suf) /\ SubSeq(s, Len(s) - Len(suf) + 1, Len(s)) = suf
TrimSuffix(s, suf) == IF HasSuffix(s, suf) THEN SubSeq(s, 1, Len(s) - Len(suf)) ELSE s
Contains(s, pat) == \E i \in 1..(Len(s) - Len(pat) + 1) : SubSeq(s, i, i + Len(pat) - 1) = pat

\* strings.Replace(s, pat, "", -1) for a pattern of two different characters:
\* the characters of s outside every occurrence of pat, in order
Remove(s, pat) ==
  LET kept == {i \in DOMAIN s :
                 /\ ~(i < Len(s) /\ SubSeq(s, i, i + 1) = pat)
                 /\ ~(i > 1 /\ SubSeq(s, i - 1, i) = pat)}
  IN  [j \in 1..Cardinality(kept) |->
         s[CHOOSE i \in kept : Cardinality({k \in kept : k <= i}) = j]]

\* strings.Trim(s, c): leading and trailing c removed
Trim(s, c) ==
  IF \A i \in DOMAIN s : s[i] = c THEN <<>>
  ELSE SubSeq(s, CHOOSE i \in DOMAIN s : s[i] # c /\ \A j \in 1..(i - 1) : s[j] = c,
                 CHOOSE i \in DOMAIN s : s[i] # c /\ \A j \in (i + 1)..Len(s) : s[j] = c)

\* the position of the last c in s, 0 if there is none
LastIndex(s, c) ==
  IF \E i \in DOMAIN s : s[i] = c
  THEN CHOOSE i \in DOMAIN s : s[i] = c /\ \A j \in (i + 1)..Len(s) : s[j] # c
  ELSE 0

\* filepath.Base of a path that does not end in a separator
Base(path) == IF path = <<>> THEN <<".">> ELSE SubSeq(path, LastIndex(path, "/") + 1, Len(path))
\* filepath.Ext: from the last dot of the last element on
Ext(path) ==
  IF path = <<>> \/ LastIndex(Base(path), ".") = 0 THEN <<>>
  ELSE SubSeq(Base(path), LastIndex(Base(path), "."), Len(Base(path)))

LowerHex == <<"0", "1", "2", "3", "4", "5", "6", "7", "8", "9", "a", "b", "c", "d", "e", "f">>
UpperHex == <<"A", "B", "C", "D", "E", "F">>
\* the value of a hex digit of either case, -1 for another character
HexValue(c) ==
  IF \E i \in DOMAIN LowerHex : LowerHex[i] = c
  THEN (CHOOSE i \in DOMAIN LowerHex : LowerHex[i] = c) - 1
  ELSE IF \E i \in DOMAIN UpperHex : UpperHex[i] = c
       THEN (CHOOSE i \in DOMAIN UpperHex : UpperHex[i] = c) + 9
       ELSE 0 - 1

\* hexutil.Decode: "0x" or "0X", then an even number of hex digits of either
\* case, none included
Decode(str) ==
  IF ~(HasPrefix(str, Str0x) \/ HasPrefix(str, <<"0", "X">>)) \/ Len(str) % 2 = 1
     \/ \E i \in 3..Len(str) : HexValue(str[i]) < 0
  THEN [err |-> TRUE, val |-> <<>>]
  ELSE [err |-> FALSE,
        val |-> [i \in 1..((Len(str) - 2) \div 2) |->
                   16 * HexValue(str[2 * i + 1]) + HexValue(str[2 * i + 2])]]

\* hexutil.Encode: "0x" and two lower-case digits per byte
Encode(bytes) ==
  Str0x \o [i \in 1..(2 * Len(bytes)) |->
              IF i % 2 = 1 THEN LowerHex[(bytes[(i + 1) \div 2] \div 16) + 1]
              ELSE LowerHex[(bytes[i \div 2] % 16) + 1]]

\* append to the slice held for k, made when missing
MapAppend(m, k, v) ==
  [x \in DOMAIN m \cup {k} |-> IF x = k THEN (IF k \in DOMAIN m THEN m[k] ELSE <<>>) \o <<v>>
                               ELSE m[x]]
MapSet(m, k, v) == [x \in DOMAIN m \cup {k} |-> IF x = k THEN v ELSE m[x]]

\* ReadValidatorsFile 119-143, from the line at the head of `lines` on; a line is
\* its comma-separated fields
RECURSIVE ValidatorsFrom(_, _, _)
ValidatorsFrom(lines, poolValidatorKeys, validatorKeyToPool) ==
  IF lines = <<>>
  THEN [err |-> FALSE, perPool |-> poolValidatorKeys, keyToPool |-> validatorKeyToPool]
  ELSE LET fields == Head(lines)
           partial == [err |-> TRUE, perPool |-> poolValidatorKeys,
                      keyToPool |-> validatorKeyToPool]
       IN  IF Len(fields) # 2 THEN partial
           ELSE LET entity == fields[1]
                    keyStr == IF HasPrefix(fields[2], Str0x) THEN fields[2]
                              ELSE Str0x \o fields[2]
                IN  IF Len(keyStr) # KeyStrLen THEN partial
                    ELSE IF Decode(keyStr).err THEN partial
                    ELSE ValidatorsFrom(Tail(lines),
                           MapAppend(poolValidatorKeys, entity, Decode(keyStr).val),
                           MapSet(validatorKeyToPool, keyStr, entity))

\* pools.ReadValidatorsFile
ReadValidatorsFile(lines) == ValidatorsFrom(lines, <<>>, <<>>)

CsvHeaders == {<<"f_validator_pubkey">>, <<"f0_">>, <<"f_public_key">>}

\* ReadCustomValidatorsFile 25-49, from the line at the head of `lines` on; a
\* header line is the line as one string
RECURSIVE CustomKeysFrom(_, _)
CustomKeysFrom(lines, validatorKeys) ==
  IF lines = <<>> THEN [err |-> FALSE, keys |-> validatorKeys]
  ELSE IF Head(lines) \in CsvHeaders THEN CustomKeysFrom(Tail(lines), validatorKeys)
  ELSE LET line == Head(lines)
           trimmed == Trim(line, "\"")
           unescaped == IF Contains(trimmed, <<"\\", "x">>)
                        THEN Remove(line, <<"\\", "x">>) ELSE trimmed
           keyStr == IF HasPrefix(unescaped, Str0x) THEN unescaped ELSE Str0x \o unescaped
       IN  IF Len(keyStr) # KeyStrLen THEN [err |-> TRUE, keys |-> validatorKeys]
           ELSE IF Decode(keyStr).err THEN [err |-> TRUE, keys |-> validatorKeys]
           ELSE CustomKeysFrom(Tail(lines), Append(validatorKeys, Decode(keyStr).val))

\* pools.ReadCustomValidatorsFile
ReadCustomValidatorsFile(lines) == CustomKeysFrom(lines, <<>>)

RECURSIVE RegisterKeys(_, _, _)
\* NewMetrics 82-85: validatorKeyToPool[hexutil.Encode(key)] = poolName
RegisterKeys(keys, poolName, validatorKeyToPool) ==
  IF keys = <<>> THEN validatorKeyToPool
  ELSE RegisterKeys(Tail(keys), poolName, MapSet(validatorKeyToPool, Encode(Head(keys)), poolName))

\* the label of a pool read from a file is the file's name without its
\* directory and extension
PoolLabelStem(poolName) == TrimSuffix(Base(poolName), Ext(poolName))

\* NewMetrics 77-81: the pool is registered under the --pool-name argument
PoolLabel(poolName) == poolName

\* NewMetrics 71-89, the loop over config.PoolNames from the head of `names` on;
\* files[n] is the lines of the file n
RECURSIVE PoolsFrom(_, _, _, _)
PoolsFrom(names, files, validatorKeysPerPool, validatorKeyToPool) ==
  IF names = <<>>
  THEN [fatal |-> FALSE, err |-> FALSE, perPool |-> validatorKeysPerPool,
        keyToPool |-> validatorKeyToPool]
  ELSE IF ~HasSuffix(Head(names), DotTxt)
       THEN PoolsFrom(Tail(names), files, validatorKeysPerPool, validatorKeyToPool)
       ELSE LET read == ReadCustomValidatorsFile(files[Head(names)])
            IN  IF read.err
                THEN [fatal |-> TRUE, err |-> FALSE, perPool |-> <<>>, keyToPool |-> <<>>]
                ELSE PoolsFrom(Tail(names), files,
                       MapSet(validatorKeysPerPool, PoolLabel(Head(names)), read.keys),
                       RegisterKeys(read.keys, PoolLabel(Head(names)), validatorKeyToPool))

\* NewMetrics with --pool-name arguments and no validators file
NewMetricsPools(names, files) == PoolsFrom(names, files, <<>>, <<>>)

\* key texts: 96 digits a, A or 1, with or without 0x; one too short; one with a
\* character that is no hex digit
Digits96(c) == [i \in 1..(KeyStrLen - 2) |-> c]
KeyTexts ==
  {Digits96(c) : c \in {"a", "A", "1"}} \cup {Str0x \o Digits96(c) : c \in {"a", "A", "1"}}
    \cup {Str0x \o <<"a", "a">>, Str0x \o Digits96("g")}
CsvLines == {<<e, k>> : e \in {"pool1", "pool2"}, k \in KeyTexts} \cup {<<"pool1">>}
TxtLines ==
  {Digits96("a"), Str0x \o Digits96("A"), Str0x \o Digits96("1"),
   <<"\"">> \o Digits96("1") \o <<"\"">>, <<"\\", "x">> \o Digits96("a"),
   <<"f_validator_pubkey">>, <<"z">>}

RECURSIVE SeqsUpTo(_, _)
\* the sequences of at most n elements of S
SeqsUpTo(S, n) ==
  IF n = 0 THEN {<<>>}
  ELSE SeqsUpTo(S, n - 1) \cup {Append(q, x) : q \in {r \in SeqsUpTo(S, n - 1) : Len(r) = n - 1}, x \in S}

\* --pool-name arguments: dir/a.txt, b.txt and a file that is no .txt
PoolPaths ==
  {<<"d", "/", "a", ".", "t", "x", "t">>, <<"b", ".", "t", "x", "t">>, <<"c", ".", "c", "s", "v">>}

CallReadValidatorsFile ==
  /\ callIn = Nil
  /\ \E lines \in SeqsUpTo(CsvLines, MaxLines) :
       /\ callIn' = [fn |-> "ReadValidatorsFile", lines |-> lines]
       /\ callOut' = ReadValidatorsFile(lines)
  /\ UNCHANGED <<schedVars, dbVars, blockVars, relayVars>>

CallNewMetricsPools ==
  /\ callIn = Nil
  /\ \E first \in PoolPaths, second \in PoolPaths :
       \E one \in SeqsUpTo(TxtLines, MaxLines), two \in SeqsUpTo(TxtLines, 1) :
         /\ first # second
         /\ callIn' = [fn |-> "NewMetrics", names |-> <<first, second>>,
                       files |-> (first :> one @@ second :> two)]
         /\ callOut' = NewMetricsPools(<<first, second>>, first :> one @@ second :> two)
  /\ UNCHANGED <<schedVars, dbVars, blockVars, relayVars>>

PoolsNext == CallReadValidatorsFile \/ CallNewMetricsPools

SpecPools == TipInit /\ [][PoolsNext]_vars

\* the epochs collected: two early ones and the last epoch a uint64 can name
BlockEpochs == {0, 1, U64Max}

BlocksInit ==
  /\ backfillEpochs = 0
  /\ epochDebug = NoDebug
  /\ database = TRUE
  /\ LoopInit /\ NoStore /\ BlocksIdle /\ CallsIdle /\ RelayIdle

\* One epoch's block data is collected, by both collectors, from the same node
CollectEpoch ==
  /\ slotAnswers = Nil
  /\ \E epoch \in BlockEpochs :
       \E node \in [EpochSlots(epoch) -> SlotAnswers] :
         /\ slotAnswers' = [epoch |-> epoch, node |-> node]
         /\ wdResult' = GetEpochWithdrawals(epoch, node)
         /\ bdResult' = GetEpochBlockData(epoch, node)
  /\ UNCHANGED <<schedVars, dbVars, relayVars, callVars>>

BlocksNext == CollectEpoch

SpecBlocks == BlocksInit /\ [][BlocksNext]_vars

\* ---------------------------------------------------------- relay rewards
\* retry.Attempts(5)
Attempts == 5
\* maxRetries := 5
MaxRetries == 5

\* the pubkey -> pool map handed to NewRelayRewards; "kx" is in no pool
validatorKeyToPool == [k \in {"k1", "k2"} |-> IF k = "k1" THEN "pool1" ELSE "pool2"]

\* common.BidTraceV2JSON, its ProposerPubkey and Value
Payload(k, v) == [pubkey |-> k, value |-> v]

\* decoded bodies of a 200 response
Bodies ==
  {<<>>,
   <<Payload("k1", <<"1">>)>>,
   <<Payload("kx", <<"1">>)>>,
   <<Payload("k1", <<"1">>), Payload("k2", <<"2">>)>>,
   <<Payload("k2", <<"x">>)>>,
   <<Payload("kx", <<"x">>)>>,
   <<Payload("k1", <<"1">>), Payload("k1", <<"x">>)>>}

\* what one httpClient.Get and the reading of its body can give
NetErr == [err |-> TRUE, status |-> 0, json |-> FALSE, body |-> <<>>]
Status(c) == [err |-> FALSE, status |-> c, json |-> FALSE, body |-> <<>>]
Ok(b) == [err |-> FALSE, status |-> 200, json |-> TRUE, body |-> b]

\* What a relay answers to the successive requests for one slot; the last answer
\* is repeated for as long as the client asks
AnswerRuns ==
  {<<Ok(b)>> : b \in Bodies}
    \cup {<<NetErr>>, <<Status(500)>>, <<Status(404)>>, <<Status(200)>>,
          <<Status(500), Ok(<<Payload("k1", <<"1">>)>>)>>,
          <<Status(404), Ok(<<Payload("k1", <<"1">>)>>)>>,
          <<NetErr, NetErr, NetErr, NetErr, Ok(<<Payload("k2", <<"2">>)>>)>>,
          <<Status(500), Status(500), Status(500), Status(500), Status(500),
            Ok(<<Payload("k2", <<"2">>)>>)>>}

Answer(answers, k) == IF k <= Len(answers) THEN answers[k] ELSE answers[Len(answers)]

\* big.NewInt(0).SetString(s, 10): an optional sign and a non-empty run of digits
SetString(s) ==
  LET signed == s # <<>> /\ Head(s) \in {"+", "-"}
      digits == IF signed THEN Tail(s) ELSE s
  IN IF digits # <<>> /\ \A i \in 1..Len(digits) : digits[i] \in DOMAIN Digits
     THEN [ok |-> TRUE,
           val |-> IF Head(s) = "-" THEN 0 - DigitsValue(digits) ELSE DigitsValue(digits)]
     ELSE [ok |-> FALSE, val |-> 0]

\* the slot taken for the index within the epoch
SlotInEpoch(w) == w[1]

Slot(w) == rEpoch * SlotsInEpoch + w[1]
Relay(w) == w[2]

\* positions of a worker that has returned
Returned == {"done", "failed", "badvalue"}

\* The worker's loop over the payloads from position i on, up to its next send
\* or its return: unknown pubkeys are skipped, an unparseable value is an error
RECURSIVE Advance(_, _)
Advance(body, i) ==
  IF i > Len(body) THEN [pc |-> "done", idx |-> i]
  ELSE IF body[i].pubkey \notin DOMAIN validatorKeyToPool THEN Advance(body, i + 1)
  ELSE IF ~SetString(body[i].value).ok THEN [pc |-> "badvalue", idx |-> i]
  ELSE [pc |-> "sending", idx |-> i]

\* The same loop where an unparseable value is logged and skipped
RECURSIVE AdvanceLogging(_, _)
AdvanceLogging(body, i) ==
  IF i > Len(body) THEN [pc |-> "done", idx |-> i]
  ELSE IF body[i].pubkey \notin DOMAIN validatorKeyToPool THEN AdvanceLogging(body, i + 1)
  ELSE IF ~SetString(body[i].value).ok THEN AdvanceLogging(body, i + 1)
  ELSE [pc |-> "sending", idx |-> i]

\* the message a sending worker offers on the results channel
Message(w) ==
  LET p == work[w].body[work[w].idx]
  IN [slot |-> Slot(w), pool |-> validatorKeyToPool[p.pubkey],
      reward |-> SetString(p.value).val]

\* a consumer that keeps the last reward of a pool in place of the sum
ConsumeOverwrite(rewards, pool, reward) ==
  [x \in DOMAIN rewards \cup {pool} |-> IF x = pool THEN reward ELSE rewards[x]]

\* the consumer's body: poolRewards[pool] = poolRewards[pool] + reward
Consume(rewards, pool, reward) == MapAdd(rewards, pool, reward)

\* errgroup.Group: the first non-nil error a worker returns is kept
GroupError(g, pc) ==
  IF g # Nil THEN g
  ELSE IF pc = "failed" THEN <<"error getting rewards">>
  ELSE IF pc = "badvalue" THEN <<"failed to parse value">>
  ELSE g

\* a worker past its requests: its payloads and position while it sends, nothing
\* once it has returned
Position(pc, body, idx) ==
  IF pc \in Returned THEN [pc |-> pc, body |-> <<>>, idx |-> 1]
  ELSE [pc |-> pc, body |-> body, idx |-> idx]

\* Observation of the run: per pool, the sum of the values of the payloads of the
\* pool's keys in the bodies decoded so far, and whether one of them had a value
\* that is no number
RECURSIVE Hear(_, _)
Hear(h, body) ==
  IF body = <<>> THEN h
  ELSE LET p == Head(body)
       IN IF p.pubkey \notin DOMAIN validatorKeyToPool THEN Hear(h, Tail(body))
          ELSE IF ~SetString(p.value).ok
               THEN Hear([h EXCEPT !.invalid = TRUE], Tail(body))
               ELSE Hear([h EXCEPT !.sums = MapAdd(h.sums, validatorKeyToPool[p.pubkey],
                                                   SetString(p.value).val)],
                         Tail(body))

\* ... and the slots whose decoded bodies held a payload of a key of some pool,
\* and those whose decoded bodies held a payload of a key of no pool
HearAt(h, body, slot) ==
  [Hear(h, body) EXCEPT
     !.slots = IF \E k \in DOMAIN body : body[k].pubkey \in DOMAIN validatorKeyToPool
               THEN @ \cup {slot} ELSE @,
     !.unmapped = IF \E k \in DOMAIN body : body[k].pubkey \notin DOMAIN validatorKeyToPool
                  THEN @ \cup {slot} ELSE @]

relayAside == <<schedVars, dbVars, blockVars, callVars>>

\* the epochs GetRelayRewards is called for
RelayEpochs == {1}

RelayInit ==
  /\ backfillEpochs = 0
  /\ epochDebug = NoDebug
  /\ database = TRUE
  /\ LoopInit /\ NoStore /\ BlocksIdle /\ CallsIdle
  /\ rEpoch \in RelayEpochs
  /\ RelayFresh

\* The spawning loop: the workers of the next slot, one per relay, are started
Spawn ==
  /\ spawned < SlotsInEpoch
  /\ work' = [w \in Items |->
                IF w[1] = spawned THEN [work[w] EXCEPT !.pc = "ready"] ELSE work[w]]
  /\ spawned' = spawned + 1
  /\ UNCHANGED <<rEpoch, relaySem, results, closed, poolRewards, slotsWithRewards,
                 gErr, returned, heard, relayAside>>

\* A worker leaves in steps. Its function reaches a return statement with the
\* relay's token still held (Returning); the deferred receive from the semaphore
\* frees the token (Unlocked); errgroup's wrapper then stores a non-nil error
\* (Stored) and at last calls Done, after which the worker counts as returned.
Returning == [done |-> "returning", failed |-> "returningError",
              badvalue |-> "returningInvalid"]
Unlocked == [done |-> "unlocked", failed |-> "unlockedError",
             badvalue |-> "unlockedInvalid"]
Stored == [failed |-> "storedError", badvalue |-> "storedInvalid"]

\* where a worker holding its relay's semaphore moves inside its function: to its
\* next send, or to its return statement, the token still held
SemStep(w, pc, body, idx) ==
  /\ work' = [work EXCEPT ![w] = IF pc \in Returned
                                  THEN Position(Returning[pc], <<>>, 1)
                                  ELSE Position(pc, body, idx)]
  /\ UNCHANGED <<relaySem, gErr>>

\* a worker that returns an error keeps its relay's token
ReleaseLeaks(w) ==
  /\ \E o \in Returned :
       /\ work[w].pc = Returning[o]
       /\ work' = [work EXCEPT ![w].pc = Unlocked[o]]
       /\ relaySem' = IF o = "done"
                      THEN [relaySem EXCEPT ![Relay(w)] = @ - 1] ELSE relaySem
  /\ UNCHANGED <<rEpoch, spawned, results, closed, poolRewards, slotsWithRewards,
                 gErr, returned, heard, relayAside>>

\* defer func() { <-relaySem[relayServer] }(): the worker's function returns and
\* its relay's token is free again, on every return path
Release(w) ==
  /\ \E o \in Returned :
       /\ work[w].pc = Returning[o]
       /\ work' = [work EXCEPT ![w].pc = Unlocked[o]]
       /\ relaySem' = [relaySem EXCEPT ![Relay(w)] = @ - 1]
  /\ UNCHANGED <<rEpoch, spawned, results, closed, poolRewards, slotsWithRewards,
                 gErr, returned, heard, relayAside>>

\* errgroup's wrapper after f() gave an error: g.errOnce.Do(g.err = err), which
\* keeps the first one
Record(w) ==
  /\ \E o \in DOMAIN Stored :
       /\ work[w].pc = Unlocked[o]
       /\ work' = [work EXCEPT ![w].pc = Stored[o]]
       /\ gErr' = GroupError(gErr, o)
  /\ UNCHANGED <<rEpoch, spawned, relaySem, results, closed, poolRewards,
                 slotsWithRewards, returned, heard, relayAside>>

\* errgroup's deferred g.done(): the wait group counts the worker as returned
Done(w) ==
  /\ \/ work[w].pc = Unlocked["done"] /\ work' = [work EXCEPT ![w].pc = "done"]
     \/ \E o \in DOMAIN Stored : /\ work[w].pc = Stored[o]
                          /\ work' = [work EXCEPT ![w].pc = o]
  /\ UNCHANGED <<rEpoch, spawned, relaySem, results, closed, poolRewards,
                 slotsWithRewards, gErr, returned, heard, relayAside>>

\* relaySem[relayServer] <- struct{}{}: blocks while the relay's token is taken;
\* the worker then issues its first request
Acquire(w) ==
  /\ work[w].pc = "ready"
  /\ relaySem[Relay(w)] < 1
  /\ relaySem' = [relaySem EXCEPT ![Relay(w)] = @ + 1]
  /\ work' = [work EXCEPT ![w].pc = "inflight"]
  /\ UNCHANGED <<rEpoch, spawned, results, closed, poolRewards, slotsWithRewards,
                 gErr, returned, heard, relayAside>>

\* the function retry.Do runs returns an error
AttemptFails(o) == o.err \/ o.status # 200

\* getRewards: retry.Do repeats the request until one attempt gives a 200 body or
\* Attempts attempts have failed; the body is then decoded
RECURSIVE getRewardsFromOneMore(_, _, _)
\* retry.Do that gives one attempt more than its Attempts option
getRewardsFromOneMore(answers, k, attempts) ==
  IF AttemptFails(Answer(answers, k))
  THEN IF k <= attempts THEN getRewardsFromOneMore(answers, k + 1, attempts)
       ELSE [err |-> TRUE, payloads |-> <<>>, requests |-> k]
  ELSE IF ~Answer(answers, k).json THEN [err |-> TRUE, payloads |-> <<>>, requests |-> k]
  ELSE [err |-> FALSE, payloads |-> Answer(answers, k).body, requests |-> k]

\* attempts: the retry.Attempts option held in r.retryOpts
RECURSIVE getRewardsFrom(_, _, _)
getRewardsFrom(answers, k, attempts) ==
  IF AttemptFails(Answer(answers, k))
  THEN IF k < attempts THEN getRewardsFrom(answers, k + 1, attempts)
       ELSE [err |-> TRUE, payloads |-> <<>>, requests |-> k]
  ELSE IF ~Answer(answers, k).json THEN [err |-> TRUE, payloads |-> <<>>, requests |-> k]
  ELSE [err |-> FALSE, payloads |-> Answer(answers, k).body, requests |-> k]

\* with the retryOpts of NewRelayRewards
getRewards(answers) == getRewardsFrom(answers, 1, Attempts)

\* the relay's answers to the workers of the semaphore version: two payloads,
\* none, a payload of a proposer of no pool, a failing relay, an unparseable
\* value after a good one, a payload after four failed attempts
RelayRuns ==
  {<<Ok(<<Payload("k1", <<"1">>), Payload("k2", <<"2">>)>>)>>, <<Ok(<<>>)>>, <<NetErr>>,
   <<Ok(<<Payload("kx", <<"1">>)>>)>>,
   <<Ok(<<Payload("k1", <<"1">>), Payload("k1", <<"x">>)>>)>>,
   <<NetErr, NetErr, NetErr, NetErr, Ok(<<Payload("k2", <<"2">>)>>)>>}

\* The worker's getRewards call returns: an error ends the worker, payloads are
\* walked up to the first send
Answered(w) ==
  /\ work[w].pc = "inflight"
  /\ \E answers \in RelayRuns :
       LET res == getRewards(answers)
       IN /\ heard' = IF res.err THEN heard ELSE HearAt(heard, res.payloads, rEpoch * SlotsInEpoch + w[1])
          /\ IF res.err THEN SemStep(w, "failed", <<>>, 1)
             ELSE SemStep(w, Advance(res.payloads, 1).pc, res.payloads,
                          Advance(res.payloads, 1).idx)
  /\ UNCHANGED <<rEpoch, spawned, results, closed, poolRewards, slotsWithRewards,
                 returned, relayAside>>

\* results holds what the consumer goroutine has received from the unbuffered
\* channel and not merged into the maps yet.
\* results <- {slot, pool, value} meets the consumer's receive (for result :=
\* range results): the worker goes on, the consumer holds the result
Rendezvous(w) ==
  /\ work[w].pc = "sending"
  /\ ~closed
  /\ results = <<>>
  /\ results' = <<Message(w)>>
  /\ SemStep(w, Advance(work[w].body, work[w].idx + 1).pc, work[w].body,
             Advance(work[w].body, work[w].idx + 1).idx)
  /\ UNCHANGED <<rEpoch, spawned, closed, poolRewards, slotsWithRewards, returned,
                 heard, relayAside>>

\* the body of the consumer's loop: it adds the reward and the slot to the maps
Merge ==
  /\ results # <<>>
  /\ poolRewards' = Consume(poolRewards, Head(results).pool, Head(results).reward)
  /\ slotsWithRewards' = slotsWithRewards \cup {Head(results).slot}
  /\ results' = <<>>
  /\ UNCHANGED <<rEpoch, spawned, work, relaySem, closed, gErr, returned, heard,
                 relayAside>>

\* close(results) as soon as the group holds an error, without g.Wait()
CloseOnError ==
  /\ spawned = SlotsInEpoch
  /\ gErr # Nil \/ \A w \in Items : work[w].pc \in Returned
  /\ ~closed
  /\ closed' = TRUE
  /\ UNCHANGED <<rEpoch, spawned, work, relaySem, results, poolRewards,
                 slotsWithRewards, gErr, returned, heard, relayAside>>

\* g.Wait() / wg.Wait() returns once every worker has returned; close(results)
Close ==
  /\ spawned = SlotsInEpoch
  /\ \A w \in Items : work[w].pc \in Returned
  /\ ~closed
  /\ closed' = TRUE
  /\ UNCHANGED <<rEpoch, spawned, work, relaySem, results, poolRewards,
                 slotsWithRewards, gErr, returned, heard, relayAside>>

\* the return statement without consumerWg.Wait()
ReturnUnjoined ==
  /\ closed
  /\ returned = Nil
  /\ returned' = IF gErr # Nil
                 THEN [err |-> TRUE, nilMaps |-> TRUE, poolRewards |-> <<>>,
                       slotsWithRewards |-> {}]
                 ELSE [err |-> FALSE, nilMaps |-> FALSE, poolRewards |-> poolRewards,
                       slotsWithRewards |-> slotsWithRewards]
  /\ UNCHANGED <<rEpoch, spawned, work, relaySem, results, closed, poolRewards,
                 slotsWithRewards, gErr, heard, relayAside>>

\* consumerWg.Wait() returns once the consumer has left its loop over the closed
\* channel; then the return statement
ReturnJoined ==
  /\ closed
  /\ results = <<>>
  /\ returned = Nil
  /\ returned' = IF gErr # Nil
                 THEN [err |-> TRUE, nilMaps |-> TRUE, poolRewards |-> <<>>,
                       slotsWithRewards |-> {}]
                 ELSE [err |-> FALSE, nilMaps |-> FALSE, poolRewards |-> poolRewards,
                       slotsWithRewards |-> slotsWithRewards]
  /\ UNCHANGED <<rEpoch, spawned, work, relaySem, results, closed, poolRewards,
                 slotsWithRewards, gErr, heard, relayAside>>

RelayNext ==
  \/ Spawn
  \/ \E w \in Items : Acquire(w)
  \/ \E w \in Items : Answered(w)
  \/ \E w \in Items : Rendezvous(w)
  \/ \E w \in Items : Release(w)
  \/ \E w \in Items : Record(w)
  \/ \E w \in Items : Done(w)
  \/ Merge
  \/ Close
  \/ ReturnJoined

\* GetRelayRewards with per-relay semaphores and retry.Do
SpecRelay == RelayInit /\ [][RelayNext]_vars

\* --- the same GetRelayRewards over a smaller set of relay answers

\* the relay's answers in these steps: two payloads, none, a failing relay, an
\* unparseable value after a good one
JoinRuns ==
  {<<Ok(<<Payload("k1", <<"1">>), Payload("k2", <<"2">>)>>)>>, <<Ok(<<>>)>>, <<NetErr>>,
   <<Ok(<<Payload("k1", <<"1">>), Payload("k1", <<"x">>)>>)>>}

\* The worker's getRewards call returns: an error ends the worker, payloads are
\* walked up to the first send
Gathered(w) ==
  /\ work[w].pc = "inflight"
  /\ \E answers \in JoinRuns :
       LET res == getRewards(answers)
       IN IF res.err THEN SemStep(w, "failed", <<>>, 1)
          ELSE SemStep(w, Advance(res.payloads, 1).pc, res.payloads,
                       Advance(res.payloads, 1).idx)
  /\ UNCHANGED <<rEpoch, spawned, results, closed, poolRewards, slotsWithRewards,
                 returned, heard, relayAside>>

RelayConsumerNext ==
  \/ Spawn
  \/ \E w \in Items : Acquire(w)
  \/ \E w \in Items : Gathered(w)
  \/ \E w \in Items : Rendezvous(w)
  \/ \E w \in Items : Release(w)
  \/ \E w \in Items : Record(w)
  \/ \E w \in Items : Done(w)
  \/ Merge
  \/ Close
  \/ ReturnJoined

SpecRelayConsumer == RelayInit /\ [][RelayConsumerNext]_vars

\* The same steps under Go's scheduling: a goroutine that can take a step is
\* run, and every HTTP request a worker issued comes back, so as long as some
\* step of the call can be taken one is taken.
SpecRelayFair == RelayInit /\ [][RelayConsumerNext]_vars /\ WF_vars(RelayConsumerNext)

\* --- GetRelayRewards with an errgroup, a back-off loop and no semaphore

\* the worker of a work item starts and issues its first request
Launch(w) ==
  /\ work[w].pc = "ready"
  /\ work' = [work EXCEPT ![w].pc = "inflight"]
  /\ UNCHANGED <<rEpoch, spawned, relaySem, results, closed, poolRewards,
                 slotsWithRewards, gErr, returned, heard, relayAside>>

GroupStep(w, pc, body, idx) ==
  /\ work' = [work EXCEPT ![w] = Position(pc, body, idx)]
  /\ gErr' = GroupError(gErr, pc)

\* the back-off loop goes round again: not (err == nil && resp.StatusCode < 500)
Retried(o) == o.err \/ o.status >= 500

\* getRewards with the back-off loop: at most MaxRetries requests, the loop left at
\* the first answer below 500; what the last request gave is then examined
RECURSIVE getRewardsBackoffFrom(_, _)
getRewardsBackoffFrom(answers, k) ==
  IF Retried(Answer(answers, k)) /\ k < MaxRetries
  THEN getRewardsBackoffFrom(answers, k + 1)
  ELSE IF Answer(answers, k).err \/ Answer(answers, k).status # 200
          \/ ~Answer(answers, k).json
       THEN [err |-> TRUE, payloads |-> <<>>, requests |-> k]
       ELSE [err |-> FALSE, payloads |-> Answer(answers, k).body, requests |-> k]

getRewardsBackoff(answers) == getRewardsBackoffFrom(answers, 1)

\* The worker's getRewards call returns
AnsweredBackoff(w) ==
  /\ work[w].pc = "inflight"
  /\ \E answers \in AnswerRuns :
       LET res == getRewardsBackoff(answers)
       IN /\ heard' = IF res.err THEN heard ELSE Hear(heard, res.payloads)
          /\ IF res.err THEN GroupStep(w, "failed", <<>>, 1)
             ELSE GroupStep(w, Advance(res.payloads, 1).pc, res.payloads,
                            Advance(res.payloads, 1).idx)
  /\ UNCHANGED <<rEpoch, spawned, relaySem, results, closed, poolRewards,
                 slotsWithRewards, returned, relayAside>>

\* results <- {pool, value} meets the consumer's receive (for result := range
\* results): the worker goes on, the consumer holds the result
RendezvousPool(w) ==
  /\ work[w].pc = "sending"
  /\ ~closed
  /\ results = <<>>
  /\ results' = <<[pool |-> Message(w).pool, reward |-> Message(w).reward]>>
  /\ GroupStep(w, Advance(work[w].body, work[w].idx + 1).pc, work[w].body,
               Advance(work[w].body, work[w].idx + 1).idx)
  /\ UNCHANGED <<rEpoch, spawned, relaySem, closed, poolRewards, slotsWithRewards,
                 returned, heard, relayAside>>

\* the body of the consumer's loop: it adds the reward to the pool's sum
MergePool ==
  /\ results # <<>>
  /\ poolRewards' = Consume(poolRewards, Head(results).pool, Head(results).reward)
  /\ results' = <<>>
  /\ UNCHANGED <<rEpoch, spawned, work, relaySem, closed, slotsWithRewards, gErr,
                 returned, heard, relayAside>>

\* consumerWg.Wait() returns once the consumer has left its loop over the closed
\* channel; then the return statement: (nil, err) or (poolRewards, nil)
ReturnPools ==
  /\ closed
  /\ results = <<>>
  /\ returned = Nil
  /\ returned' = IF gErr # Nil
                 THEN [err |-> TRUE, nilMaps |-> TRUE, poolRewards |-> <<>>]
                 ELSE [err |-> FALSE, nilMaps |-> FALSE, poolRewards |-> poolRewards]
  /\ UNCHANGED <<rEpoch, spawned, work, relaySem, results, closed, poolRewards,
                 slotsWithRewards, gErr, heard, relayAside>>

RelayErrgroupNext ==
  \/ Spawn
  \/ \E w \in Items : Launch(w)
  \/ \E w \in Items : AnsweredBackoff(w)
  \/ \E w \in Items : RendezvousPool(w)
  \/ MergePool
  \/ Close
  \/ ReturnPools

SpecRelayErrgroup == RelayInit /\ [][RelayErrgroupNext]_vars

\* --- GetRelayRewards with a WaitGroup, a buffered channel and logged errors

\* cap(results): len(RELAY_SERVERS)*int(slotsInEpoch)
ResultsCap == Cardinality(RELAY_SERVERS) * SlotsInEpoch

\* getRewards with a single request
getRewardsOnce(answers) ==
  IF Answer(answers, 1).err \/ Answer(answers, 1).status # 200 \/ ~Answer(answers, 1).json
  THEN [err |-> TRUE, payloads |-> <<>>, requests |-> 1]
  ELSE [err |-> FALSE, payloads |-> Answer(answers, 1).body, requests |-> 1]

\* The worker's getRewards call returns; an error is logged and the worker returns
AnsweredOnce(w) ==
  /\ work[w].pc = "inflight"
  /\ \E answers \in AnswerRuns :
       LET res == getRewardsOnce(answers)
       IN /\ heard' = IF res.err THEN heard ELSE Hear(heard, res.payloads)
          /\ work' = [work EXCEPT ![w] =
                        IF res.err THEN Position("failed", <<>>, 1)
                        ELSE Position(AdvanceLogging(res.payloads, 1).pc, res.payloads,
                                      AdvanceLogging(res.payloads, 1).idx)]
  /\ UNCHANGED <<rEpoch, spawned, relaySem, results, closed, poolRewards,
                 slotsWithRewards, gErr, returned, relayAside>>

\* results <- {pool, value} on the buffered channel
Send(w) ==
  /\ work[w].pc = "sending"
  /\ ~closed
  /\ Len(results) < ResultsCap
  /\ results' = Append(results, [pool |-> Message(w).pool, reward |-> Message(w).reward])
  /\ work' = [work EXCEPT ![w] = Position(AdvanceLogging(work[w].body, work[w].idx + 1).pc,
                                          work[w].body,
                                          AdvanceLogging(work[w].body, work[w].idx + 1).idx)]
  /\ UNCHANGED <<rEpoch, spawned, relaySem, closed, poolRewards, slotsWithRewards,
                 gErr, returned, heard, relayAside>>

\* the consumer takes the next buffered result
Receive ==
  /\ results # <<>>
  /\ poolRewards' = Consume(poolRewards, Head(results).pool, Head(results).reward)
  /\ results' = Tail(results)
  /\ UNCHANGED <<rEpoch, spawned, work, relaySem, closed, slotsWithRewards, gErr,
                 returned, heard, relayAside>>

\* consumerWg.Wait(): the consumer has drained the closed channel; return poolRewards, nil
ReturnLogged ==
  /\ closed
  /\ results = <<>>
  /\ returned = Nil
  /\ returned' = [err |-> FALSE, nilMaps |-> FALSE, poolRewards |-> poolRewards]
  /\ UNCHANGED <<rEpoch, spawned, work, relaySem, results, closed, poolRewards,
                 slotsWithRewards, gErr, heard, relayAside>>

RelayWaitgroupNext ==
  \/ Spawn
  \/ \E w \in Items : Launch(w)
  \/ \E w \in Items : AnsweredOnce(w)
  \/ \E w \in Items : Send(w)
  \/ Receive
  \/ Close
  \/ ReturnLogged

SpecRelayWaitgroup == RelayInit /\ [][RelayWaitgroupNext]_vars

\* ------------------------------------------------------ getRewards on its own
MaxRun == 5

\* what the relay may answer to one request
Replies ==
  {NetErr, Status(500), Status(404), Status(429), Status(200),
   Ok(<<Payload("k1", <<"1">>)>>)}

\* the relay's answers to the successive requests of one getRewards call
ReplyRuns == SeqsUpTo(Replies, MaxRun) \ {<<>>}

\* the retry.Attempts of NewRelayRewards and of TestGetRelayRewards_HTTPError
RetryOpts == {Attempts, 1}

\* one call of getRewards with retry.Do (part_004)
CallGetRewards ==
  /\ callIn = Nil
  /\ \E answers \in ReplyRuns, attempts \in RetryOpts :
       /\ callIn' = [code |-> "retry", answers |-> answers, attempts |-> attempts]
       /\ callOut' = getRewardsFrom(answers, 1, attempts)
  /\ UNCHANGED <<schedVars, dbVars, blockVars, relayVars>>

\* one call of getRewards with the back-off loop (relayrewards.go 251-289)
CallGetRewardsBackoff ==
  /\ callIn = Nil
  /\ \E answers \in ReplyRuns :
       /\ callIn' = [code |-> "backoff", answers |-> answers, attempts |-> MaxRetries]
       /\ callOut' = getRewardsBackoff(answers)
  /\ UNCHANGED <<schedVars, dbVars, blockVars, relayVars>>

GetRewardsNext == CallGetRewards \/ CallGetRewardsBackoff

SpecGetRewards == TipInit /\ [][GetRewardsNext]_vars

\* ------------------------------------- the work items of GetRelayRewards
MaxItemEpoch == 9

\* With one loop variable shared by all iterations, every closure started in the
\* range loop reads the variable's last value.
CapturedShared(relays, j) == relays[Len(relays)]

\* for _, relayServer := range RELAY_SERVERS { g.Go(func() ...) }: the loop
\* variable is a new one in every iteration (Go 1.22 and later; the build is Go
\* 1.25), so the closure started in iteration j reads that iteration's relay.
Captured(relays, j) == relays[j]

\* the inner loop from position j on: one closure per relay, each with the slot
\* declared in the enclosing iteration
RECURSIVE RelayLoop(_, _, _)
RelayLoop(relays, j, slot) ==
  IF j > Len(relays) THEN <<>>
  ELSE <<[slot |-> slot, relay |-> Captured(relays, j)]>> \o RelayLoop(relays, j + 1, slot)

\* for i := range slotsInEpoch { slot := epoch*slotsInEpoch + i; ... } from i on
RECURSIVE SlotLoop(_, _, _, _)
SlotLoop(epoch, slotsInEpoch, i, relays) ==
  IF i >= slotsInEpoch THEN <<>>
  ELSE RelayLoop(relays, 1, epoch * slotsInEpoch + i)
         \o SlotLoop(epoch, slotsInEpoch, i + 1, relays)

\* The (slot, relay) arguments of the getRewards calls of the closures that
\* GetRelayRewards(epoch) starts, in the order it starts them
WorkItems(epoch, slotsInEpoch, relays) == SlotLoop(epoch, slotsInEpoch, 0, relays)

\* values of RELAY_SERVERS: lists of distinct relays
RelayLists ==
  {l \in SeqsUpTo({"relayA", "relayB", "relayC"}, 3) :
     l # <<>> /\ \A i, j \in 1..Len(l) : l[i] = l[j] => i = j}

CallWorkItems ==
  /\ callIn = Nil
  /\ \E epoch \in 0..MaxItemEpoch, n \in 1..SlotsInEpoch, relays \in RelayLists :
       /\ callIn' = [epoch |-> epoch, slotsInEpoch |-> n, relays |-> relays]
       /\ callOut' = WorkItems(epoch, n, relays)
  /\ UNCHANGED <<schedVars, dbVars, blockVars, relayVars>>

WorkItemsNext == CallWorkItems

SpecWorkItems == TipInit /\ [][WorkItemsNext]_vars

\* ------------------------------------------------------------------ claims

\* C1 (contiguity): whenever ProcessEpoch(E, prev) hands a pair of snapshots to
\* beaconState.Run, the previous snapshot is the snapshot of epoch exactly E-1,
\* in the backfill calls and in the head call of a pass alike.
C1_DifferGetsAdjacentPair ==
  lastDiffer # Nil => lastDiffer[2] = lastDiffer[1] - 1

\* The pass has just been planned and none of its epochs processed yet.
PassPlanned ==
  \/ lpc = "backfill" /\ mIdx = 1
  \/ lpc = "head" /\ missingEpochs = <<>>

\* C2 (one request per relay): at every instant and for every relay, at most one
\* work item of that relay has a request in flight.
C2_OneInFlightPerRelay ==
  \A r \in RELAY_SERVERS :
    Cardinality({w \in Items : Relay(w) = r /\ work[w].pc = "inflight"}) <= 1

\* C3 (sum of the responses): when every request of the call succeeded, the call
\* succeeds and the map it returns holds, for every pool, the sum of the values
\* of all payloads of all (slot, relay) responses whose pubkey belongs to the
\* pool, each relay's payload counted, and no entry for a pool without payload.
C3_ReturnsSumOfResponses ==
  (returned # Nil /\ \A w \in Items : work[w].pc = "done") =>
    ~returned.err /\ returned.poolRewards = heard.sums

\* one relay answered the first slot with a payload of a proposer of no pool,
\* every other request was answered with the values 1 and 2 for the two pools'
\* keys, and the call returned the sums of these
C3_Witness ==
  /\ returned # Nil
  /\ \A w \in Items : work[w].pc = "done"
  /\ heard.unmapped = {FirstSlot(rEpoch)}
  /\ MapGet(returned.poolRewards, "pool1") = Cardinality(Items) - 1
  /\ MapGet(returned.poolRewards, "pool2") = 2 * (Cardinality(Items) - 1)

\* C4 (no partial map): when the request of some work item failed for good, the
\* call returns an error and nil maps.
C4_FailureReturnsError ==
  (returned # Nil /\ \E w \in Items : work[w].pc = "failed") =>
    returned.err /\ returned.nilMaps

\* C5 (unparseable value): when a response holds a payload of a mapped pubkey
\* whose value is not a base-10 integer, the call returns an error and nil maps.
C5_InvalidValueReturnsError ==
  (returned # Nil /\ heard.invalid) => returned.err /\ returned.nilMaps

\* C6 (retry): an epoch whose ProcessEpoch call failed is passed to ProcessEpoch
\* again.  The head moves on and rows are never deleted, so an epoch that the
\* next plan leaves out (older than the window, or already holding a row of some
\* pool) stays out of the later plans of an advancing head: the claim is that the
\* plan made after a failure of E includes E.  Wrapped epochs are left aside.
C6_FailedEpochIsRetried ==
  (PassPlanned /\ epochDebug = NoDebug /\ currentEpoch >= 0) =>
    \A e \in failed : e >= 0 => e \in SeqToSet(missingEpochs) \cup {currentEpoch}

\* The epochs of the window [C-W+1, C] without a row, ascending
MissingInWindow(t, C, W) ==
  SortAsc({e \in 0..C : e >= C - W + 1 /\ ~\E x \in t : x.epoch = e})

\* C7 (backfill gap completeness): GetMissingEpochs(C, W) returns exactly the
\* epochs e with C-W+1 <= e <= C that have no pools_metrics_summary row, in
\* ascending order, whenever the database itself answers the query.
C7_MissingEpochsExact ==
  (query # Nil /\ ~query.dbError) =>
    /\ ~query.res.err
    /\ query.res.epochs = MissingInWindow(table, query.C, query.W)

\* C8 (idempotent upsert): after any sequence of StoreValidatorPerformance
\* calls the table holds exactly one row for every key stored and none for any
\* other key, and that row is the one bound from the last call made with the key.
C8_LastCallWins ==
  /\ \A k \in DOMAIN lastCall : {x \in table : Key(x) = k} = {BoundRow(lastCall[k])}
  /\ \A x \in table : Key(x) \in DOMAIN lastCall

\* A key was stored again with other values, and a second key holds a row.
C8_Witness ==
  overwrote /\ Cardinality(table) >= 2

\* C9 (two-epoch lag): in non-debug mode every epoch handed to ProcessEpoch is a
\* real epoch at least two epochs behind the node's head epoch, for every head
\* slot, those below 2*slotsInEpoch included.
C9_HandedEpochLagsHead ==
  (epochDebug = NoDebug /\ handed # Nil) =>
    /\ handed[1] >= 0
    /\ handed[1] + EpochLag <= headSlot \div SlotsInEpoch

\* The slots of the collected epoch whose block the node served
PresentSlots == {sl \in DOMAIN slotAnswers.node : slotAnswers.node[sl].err = Nil}
\* Some slot's fetch failed with something other than NOT_FOUND
HardErrorSlot ==
  \E sl \in DOMAIN slotAnswers.node :
    slotAnswers.node[sl].err # Nil /\ ~IsNotFound(slotAnswers.node[sl].err)

\* C10 (slot errors): a NOT_FOUND answer for a slot counts as an absent block and
\* the other slots are still collected, while any other error fetching a slot's
\* block makes the collection fail; this for GetEpochBlockData and for
\* GetEpochWithdrawals alike.
C10_OnlyNotFoundIsSkipped ==
  slotAnswers # Nil =>
    /\ HardErrorSlot => (wdResult.err /\ bdResult.err)
    /\ (~HardErrorSlot /\ \A sl \in PresentSlots : ~GetProposerTip(slotAnswers.node[sl].block).err) =>
         (~wdResult.err /\ ~bdResult.err)

\* The fee the fee market charges a transaction of type 2, 3 or 4
EffectiveTipFee(tx, headerBaseFee) == UsedGasPriceMin(tx, headerBaseFee) * tx.receipt.gasUsed

\* C11 (dynamic fee): for every transaction of type 2, 3 or 4 of the block,
\* GetProposerTip charges min(gasFeeCap, gasTipCap + baseFee) * gasUsed,
\* whichever of the two is the smaller.
C11_DynamicFeeIsCappedPrice ==
  (callIn # Nil /\ ~callOut.fatal /\ ~callOut.err) =>
    \A i \in DOMAIN callIn.txs :
      callIn.txs[i].type \in {2, 3, 4} =>
        TipFee(callIn.txs[i], callIn.header.baseFee).val
          = EffectiveTipFee(callIn.txs[i], callIn.header.baseFee)

\* The base fee of the block's execution payload, decoded from the fork's field
RECURSIVE LittleEndianValue(_)
LittleEndianValue(b) ==
  IF b = <<>> THEN 0 ELSE Head(b) + 256 * LittleEndianValue(Tail(b))
BaseFeeOf(b) ==
  IF b.fork \in {"bellatrix", "capella"} THEN LittleEndianValue(b.baseFeePerGas)
  ELSE b.baseFeePerGas

\* The fees of the transactions: gasPrice * gasUsed for types 0 and 1, the
\* price charged to a dynamic-fee transaction times its gasUsed for the others
RECURSIVE FeesOf(_, _)
FeesOf(txs, headerBaseFee) ==
  IF txs = <<>> THEN 0
  ELSE (IF Head(txs).type \in {0, 1}
        THEN Head(txs).gasPrice * Head(txs).receipt.gasUsed
        ELSE UsedGasPrice(Head(txs), headerBaseFee) * Head(txs).receipt.gasUsed)
       + FeesOf(Tail(txs), headerBaseFee)

\* C12 (proposer tip): the value GetProposerTip returns for a block is the sum of
\* its transactions' fees (gasPrice * receipt gasUsed for types 0 and 1) minus
\* the block's gasUsed times the block's own base fee, read from the payload of
\* whichever fork the block is.
C12_TipIsFeesMinusBurn ==
  (callIn # Nil /\ ~callOut.fatal /\ ~callOut.err) =>
    callOut.val = FeesOf(callIn.txs, callIn.header.baseFee)
                    - callIn.gasUsed * BaseFeeOf(callIn)

\* a pre-Deneb block of two transactions, the first a legacy one using 2 gas, is tipped
C12_Witness ==
  /\ callIn # Nil /\ ~callOut.fatal /\ ~callOut.err
  /\ callIn.fork = "capella"
  /\ Len(callIn.txs) = 2
  /\ callIn.txs[1].type = 1 /\ callIn.txs[1].receipt.gasUsed = 2
  /\ BaseFeeOf(callIn) = 2
  /\ callOut.val > 0

\* The withdrawals of the blocks the node served for the slots from `slot` on
RECURSIVE WithdrawalsServed(_, _)
WithdrawalsServed(node, slot) ==
  IF slot \notin DOMAIN node THEN <<>>
  ELSE (IF node[slot].err = Nil THEN node[slot].block.withdrawals ELSE <<>>)
       \o WithdrawalsServed(node, slot + 1)

\* The amounts withdrawn to validator i in a list of withdrawals, added up
RECURSIVE AmountFor(_, _)
AmountFor(ws, i) ==
  IF ws = <<>> THEN 0
  ELSE (IF Head(ws).index = i THEN Head(ws).amount ELSE 0) + AmountFor(Tail(ws), i)

\* m holds exactly the validators withdrawn to in ws, each with its total
HoldsSums(m, ws) ==
  /\ DOMAIN m = {ws[k].index : k \in DOMAIN ws}
  /\ \A i \in DOMAIN m : m[i] = AmountFor(ws, i)

\* C13 (withdrawals): a collector that returns the epoch's withdrawals map
\* returns one whose keys are exactly the validator indexes withdrawn to in some
\* served block of the epoch and whose values are the sums of all those amounts,
\* within a block and across blocks; one block extracted into an empty map
\* gives that block's sums.
C13_WithdrawalsAreSummed ==
  slotAnswers # Nil =>
    LET served == WithdrawalsServed(slotAnswers.node, FirstSlot(slotAnswers.epoch))
    IN  /\ (~wdResult.err /\ ~wdResult.fatal) => HoldsSums(wdResult.withdrawals, served)
        /\ (~bdResult.err /\ ~bdResult.fatal) => HoldsSums(bdResult.data.withdrawals, served)
        /\ \A sl \in PresentSlots :
             HoldsSums(ExtractWithdrawals(slotAnswers.node[sl].block.withdrawals, <<>>),
                       slotAnswers.node[sl].block.withdrawals)

\* both collectors return a map in which validator 7 was withdrawn to twice in
\* each of two blocks
C13_Witness ==
  /\ slotAnswers # Nil
  /\ ~wdResult.err /\ ~wdResult.fatal /\ ~bdResult.err /\ ~bdResult.fatal
  /\ 7 \in DOMAIN wdResult.withdrawals /\ wdResult.withdrawals[7] = 6
  /\ 7 \in DOMAIN bdResult.data.withdrawals /\ bdResult.data.withdrawals[7] = 6

\* The fields a fork's block does not have
Lacks(fn, fork) ==
  \/ fork = "altair" /\ fn # "GetProposerIndex"
  \/ fork = "bellatrix" /\ fn \in {"GetBlockWithdrawals", "GetBlockWithdrawalsNoFulu"}

\* The field of the block an accessor is to return
FieldOf(fn, b) ==
  CASE fn \in {"GetBlockWithdrawals", "GetBlockWithdrawalsNoFulu"} -> b.withdrawals
    [] fn = "GetBlockTransactions" -> b.txs
    [] fn = "GetBlockNumber" -> b.blockNumber
    [] fn = "GetBaseFeePerGas" -> Bytes32(BaseFeeOf(b))
    [] fn = "GetGasUsed" -> b.gasUsed
    [] fn = "GetProposerIndex" -> b.proposer

\* C14 (fork accessors): whatever the fork of the block, an accessor returns the
\* block's field or an error: it never ends the process, and for a fork that
\* lacks the field it returns an error, not an empty or zero value; so Altair
\* gives an error for withdrawals and transactions, and Fulu gives its
\* withdrawals to the collector ProcessEpoch calls.
C14_AccessorReturnsFieldOrError ==
  callIn # Nil =>
    /\ ~callOut.fatal
    /\ Lacks(callIn.fn, callIn.block.fork) => callOut.err
    /\ ~Lacks(callIn.fn, callIn.block.fork) =>
         (~callOut.err /\ callOut.val = FieldOf(callIn.fn, callIn.block))

\* The indexes of the pool's validators that are in S_e and active
ActivePoolIndexes ==
  {i - 1 : i \in {x \in DOMAIN callIn.cur.validators :
                    /\ callIn.cur.validators[x].pubkey \in SeqToSet(callIn.pubKeys)
                    /\ callIn.cur.validators[x].activationEpoch <= callIn.cur.epoch - 1
                    /\ callIn.cur.epoch - 1 < callIn.cur.validators[x].exitEpoch}}

\* balance_e(v) - balance_e-1(v) - withdrawals_e(v) of the call
DeltaOf(i) ==
  callIn.cur.validators[i + 1].balance - callIn.prev.validators[i + 1].balance
    - (IF i \in DOMAIN callIn.withdrawals THEN callIn.withdrawals[i] ELSE 0)

RECURSIVE SumDeltas(_)
SumDeltas(S) ==
  IF S = {} THEN 0 ELSE LET i == CHOOSE x \in S : TRUE IN DeltaOf(i) + SumDeltas(S \ {i})

\* C15 (balance conservation): for a pool and an adjacent pair of snapshots, the
\* persisted earnedGwei - lostGwei is the sum, over the pool's active
\* validators, of balance_e - balance_e-1 - withdrawals_e, the withdrawals being
\* those ProcessEpoch collected for the epoch; a validator with a delta >= 0
\* counts in earnedGwei only, one with a negative delta in lostGwei and
\* nWithLessBalance only.
C15_BalanceConservation ==
  callIn # Nil =>
    /\ callOut.earnedGwei - callOut.lostGwei = SumDeltas(ActivePoolIndexes)
    /\ callOut.earnedGwei = SumDeltas({i \in ActivePoolIndexes : DeltaOf(i) >= 0})
    /\ callOut.lostGwei = 0 - SumDeltas({i \in ActivePoolIndexes : DeltaOf(i) < 0})
    /\ callOut.nWithLessBalance = Cardinality({i \in ActivePoolIndexes : DeltaOf(i) < 0})

\* two active validators: one whose balance stayed and who was withdrawn from,
\* so that it lost, and one that earned
C15_Witness ==
  /\ callIn # Nil
  /\ ActivePoolIndexes = {0, 1}
  /\ callIn.withdrawals # <<>>
  /\ callIn.cur.validators[1].balance = callIn.prev.validators[1].balance
  /\ callOut.nWithLessBalance = 1 /\ callOut.lostGwei = 1 /\ callOut.earnedGwei = 1

\* C16 (vote accounting): for a pool and an epoch, none of nIncorrectHead,
\* nIncorrectSource and nIncorrectTarget exceeds nTotalVotes, and nTotalVotes is
\* the number of the pool's validators that are in the registry of S_e and
\* active there (activationEpoch <= e-1 < exitEpoch); a key the registry does
\* not hold is counted nowhere.
C16_VoteAccounting ==
  callIn # Nil =>
    /\ callOut.nIncorrectHead <= callOut.nTotalVotes
    /\ callOut.nIncorrectSource <= callOut.nTotalVotes
    /\ callOut.nIncorrectTarget <= callOut.nTotalVotes
    /\ callOut.nTotalVotes = Cardinality(ActivePoolIndexes)
    /\ callOut.nValidatingKeys = Cardinality(ActivePoolIndexes)

\* a pool with a key unknown to the registry, one active validator that missed
\* the head vote and one that is not active yet
C16_Witness ==
  /\ callIn # Nil
  /\ callIn.pubKeys = <<"k1", "k9", "k2">>
  /\ ActivePoolIndexes = {0}
  /\ callIn.cur.validators[2].activationEpoch = callIn.cur.epoch
  /\ callOut.nTotalVotes = 1 /\ callOut.nIncorrectHead = 1 /\ callOut.nIncorrectTarget = 0

\* epoch a is not after epoch b, the far future epoch being after every other
NotAfter(a, b) ==
  IF a = U64Max THEN b = U64Max ELSE IF b = U64Max THEN TRUE ELSE a <= b

\* the positions of the validators of the call's state that satisfy P
Counted(P(_)) ==
  Cardinality({i \in DOMAIN callIn.state.validators : P(callIn.state.validators[i])})

\* C17 (network stats): GetNetworkStats counts a validator as exited iff
\* exitEpoch <= epoch, as active iff activationEpoch <= epoch < exitEpoch and as
\* slashed iff its flag is set, whatever the other two say; so no validator is
\* both active and exited, and nActive + nExited is at most the number of
\* validators. The state of the test gives 1 slashed, 2 exited, 1 active at
\* epoch 1.
C17_NetworkStatsClassify ==
  callIn # Nil =>
    LET Exited(v) == NotAfter(v.exitEpoch, callIn.epoch)
        Active(v) == NotAfter(v.activationEpoch, callIn.epoch) /\ ~NotAfter(v.exitEpoch, callIn.epoch)
        Slashed(v) == v.slashed
    IN  /\ callOut.NOfExitedValidators = Counted(Exited)
        /\ callOut.NOfActiveValidators = Counted(Active)
        /\ callOut.NOfSlashedValidators = Counted(Slashed)
        /\ callOut.NOfActiveValidators + callOut.NOfExitedValidators
             <= Len(callIn.state.validators)
        /\ (callIn.epoch = 1 /\ callIn.state.validators = TestValidators) =>
             /\ callOut.NOfSlashedValidators = 1
             /\ callOut.NOfExitedValidators = 2
             /\ callOut.NOfActiveValidators = 1

\* the state of the test at epoch 1
C17_Witness ==
  /\ callIn # Nil
  /\ callIn.epoch = 1 /\ callIn.state.validators = TestValidators
  /\ callOut.NOfExitedValidators = 2

\* C18 (slots with rewards): a successful GetRelayRewards(e) returns as
\* slotsWithRewards exactly the slots of epoch e for which some relay's response
\* held a payload whose proposer pubkey is a key of a pool; a slot answered only
\* with unknown proposers or empty lists is not in it; on error it is nil.
C18_SlotsWithRewardsExact ==
  returned # Nil =>
    IF returned.err
    THEN returned.nilMaps /\ returned.slotsWithRewards = {}
    ELSE /\ returned.slotsWithRewards = heard.slots
         /\ returned.slotsWithRewards \subseteq EpochSlots(rEpoch)

\* a successful call in which the last slot of the epoch had a payload of a pool
\* and the first had payloads of proposers of no pool only
C18_Witness ==
  /\ returned # Nil /\ ~returned.err
  /\ SlotBound(rEpoch) - 1 \in returned.slotsWithRewards
  /\ FirstSlot(rEpoch) \in heard.unmapped
  /\ FirstSlot(rEpoch) \notin returned.slotsWithRewards
  /\ returned.poolRewards # <<>>

\* the keys of the list held for pool p
KeysOf(r, p) == {r.perPool[p][i] : i \in DOMAIN r.perPool[p]}

\* C19 (inverse pool maps): after the pools are loaded, from a validators CSV or
\* from --pool-name files, a pubkey is in the key list of pool p iff the
\* pubkey->pool map sends it to p, so that a pubkey is in at most one pool, also
\* when the input names it under two pools.
C19_PoolMapsAreInverse ==
  (callIn # Nil /\ ~callOut.err /\ (callIn.fn = "NewMetrics" => ~callOut.fatal)) =>
    /\ \A p \in DOMAIN callOut.perPool : \A k \in KeysOf(callOut, p) :
         \A t \in DOMAIN callOut.keyToPool :
           Decode(t).val = k => callOut.keyToPool[t] = p
    /\ \A p \in DOMAIN callOut.perPool : \A k \in KeysOf(callOut, p) :
         \E t \in DOMAIN callOut.keyToPool : Decode(t).val = k
    /\ \A t \in DOMAIN callOut.keyToPool :
         /\ callOut.keyToPool[t] \in DOMAIN callOut.perPool
         /\ Decode(t).val \in KeysOf(callOut, callOut.keyToPool[t])
    /\ \A p, q \in DOMAIN callOut.perPool :
         p # q => KeysOf(callOut, p) \cap KeysOf(callOut, q) = {}

\* C20 (pool label): a pool given as --pool-name <path> is registered in both
\* pool maps under the stem of the file name, the base name without directory
\* and extension.
C20_PoolLabelIsFileStem ==
  (callIn # Nil /\ callIn.fn = "NewMetrics" /\ ~callOut.fatal) =>
    /\ DOMAIN callOut.perPool =
         {PoolLabelStem(callIn.names[i]) :
            i \in {x \in DOMAIN callIn.names : HasSuffix(callIn.names[x], DotTxt)}}
    /\ \A t \in DOMAIN callOut.keyToPool : callOut.keyToPool[t] \in DOMAIN callOut.perPool

\* C21 (no database): with an empty --database-path (nil Metrics.db) the loop
\* keeps running: no iteration dereferences the missing handle, so the process
\* never crashes on it.
C21_NoDatabaseLoopRuns ==
  ~database => lpc # "crashed"

\* The position of Loop is inside a pass: between the plan and the return of the
\* head ProcessEpoch call
InPass == {"backfill", "head", "process"}

\* C22 (debug mode): with epochDebug set, the step in which the pass ends (the
\* head ProcessEpoch call of the debug epoch returns, with or without an error)
\* ends the process; the loop never goes back to polling for a second pass.
C22_DebugExitsAfterOnePass ==
  [][(epochDebug # NoDebug /\ lpc \in InPass /\ lpc' \notin InPass) => lpc' = "exited"]_vars

\* The step is one in which a ProcessEpoch call returns an error to Loop
CallFails ==
  \/ lpc \in {"backfill", "head"} /\ lpc' # "process"
  \/ lpc = "process" /\ pe.left # {} /\ pe' = Nil

\* C23 (carried state): prevEpoch never decreases, and an iteration step whose
\* ProcessEpoch call fails changes neither prevEpoch nor prevBeaconState (both
\* only ever hold what a successful call left).
C23_CarriedStateOnlyAdvances ==
  [][/\ U64Le(prevEpoch, prevEpoch')
     /\ CallFails => UNCHANGED <<prevEpoch, prevBeaconState>>]_vars

\* The epochs of the running pass whose ProcessEpoch call came before the running
\* call, in call order
CalledBefore ==
  IF pe.ret = "backfill" THEN SubSeq(missingEpochs, 1, mIdx - 1) ELSE missingEpochs

\* C24 (carried snapshot): when the call before ProcessEpoch(E, ...) in the pass
\* was a successful ProcessEpoch(E-1, ...), the call for E receives the carried
\* snapshot of E-1 and does not fetch the state of E-1 again.
C24_CarriedSnapshotIsReused ==
  (/\ lpc = "process"
   /\ CalledBefore # <<>>
   /\ CalledBefore[Len(CalledBefore)] = pe.epoch - 1
   /\ (pe.epoch - 1) \notin failed)
  => ~pe.fetchedPrev

\* C25 (syncing gate): ProcessEpoch runs only in an iteration whose NodeSyncing
\* query answered and reported a node in sync; an iteration whose query failed or
\* reported syncing plans no pass, calls nothing, writes no row and leaves
\* prevEpoch and prevBeaconState as they were.
C25_SyncingIterationDoesNothing ==
  [][/\ lpc' \in InPass => syncing' = <<"ok">>
     /\ (lpc = "poll" /\ syncing' # <<"ok">>) =>
          UNCHANGED <<lpc, prevEpoch, prevBeaconState, missingEpochs, pe, table, duties,
                      handed, lastDiffer, failed, query>>]_vars

\* An iteration found the node syncing or unreachable after epochs were
\* processed and stored.
C25_Witness ==
  /\ syncing \in {<<"error">>, <<"syncing">>}
  /\ prevBeaconState # Nil
  /\ table # {}

\* C26 (head epochs advance): once the head epoch E was processed with success,
\* Loop is inside a pass (any ProcessEpoch call, backfill or head) only with a
\* currentEpoch strictly greater than E, and the next head epoch processed with
\* success is strictly greater than E.
C26_HeadEpochsStrictlyIncrease ==
  [][headDone # Nil =>
       /\ lpc' \in InPass => U64Lt(headDone[1], currentEpoch')
       /\ headDone' # headDone => U64Lt(headDone[1], headDone'[1])]_vars

\* C27 (order inside a pass): the epochs one pass hands to ProcessEpoch never
\* decrease (the missing epochs ascending, then currentEpoch): every call that
\* follows another call of the same pass, failed or not, is for an epoch that is
\* not before that of the call it follows.
C27_PassEpochsNeverDecrease ==
  [][(lpc \in {"backfill", "head"} /\ ~PassPlanned /\ handed' # Nil) =>
       U64Le(handed[1], handed'[1])]_vars

\* The head call of a pass that backfilled two epochs, the first of which failed,
\* is next.
C27_Witness ==
  /\ lpc = "head"
  /\ Len(missingEpochs) >= 2
  /\ missingEpochs[1] \in failed
  /\ handed = <<missingEpochs[Len(missingEpochs)]>>

\* the attempt of the call at position k was answered with HTTP 200
Got200(k) == ~Answer(callIn.answers, k).err /\ Answer(callIn.answers, k).status = 200
\* the attempt at position k met a network error or a status of 500 and above
GotRetryable(k) == Answer(callIn.answers, k).err \/ Answer(callIn.answers, k).status >= 500

\* the attempt at position k was answered with a status that is neither 200 nor
\* 500 and above
GotOther(k) ==
  /\ ~Answer(callIn.answers, k).err
  /\ Answer(callIn.answers, k).status # 200
  /\ Answer(callIn.answers, k).status < 500

C29_OtherStatusFailsAtOnce ==
  callOut # Nil =>
    /\ \A k \in 1..callOut.requests :
         GotOther(k) => (callOut.err /\ callOut.requests = k)
    /\ GotRetryable(callOut.requests) => callOut.requests = callIn.attempts

\* C30 (single owner of the output maps): poolRewards and slotsWithRewards change
\* only in a step of the consumer goroutine, which merges the result it received
\* while no worker moves, and only before the call has returned; the caller
\* returns, with an error or with the maps, only after every worker has returned,
\* the channel is closed and the consumer has merged all it received, so the maps
\* it hands back are never written again.
C30_ConsumerOwnsTheMaps ==
  [][/\ (poolRewards' # poolRewards \/ slotsWithRewards' # slotsWithRewards) =>
          /\ results # <<>> /\ results' = <<>>
          /\ poolRewards' = Consume(poolRewards, Head(results).pool, Head(results).reward)
          /\ slotsWithRewards' = slotsWithRewards \cup {Head(results).slot}
          /\ work' = work
          /\ returned = Nil /\ returned' = Nil
     /\ returned' # Nil =>
          /\ closed /\ results = <<>>
          /\ \A w \in Items : work[w].pc \in Returned
          /\ ~returned'.err => /\ returned'.poolRewards = poolRewards'
                                /\ returned'.slotsWithRewards = slotsWithRewards']_vars

\* The call returned an error after the consumer had merged a result.
C30_Witness ==
  /\ returned # Nil
  /\ returned.err
  /\ poolRewards # <<>>

\* C31 (work items): GetRelayRewards(e) starts exactly one work item for every
\* pair of a slot of epoch e and a relay of RELAY_SERVERS, each asking for its
\* own slot at its own relay, and none for a slot outside the epoch.
C31_WorkItemsAreTheProduct ==
  (callIn # Nil /\ "relays" \in DOMAIN callIn) =>
    LET n == callIn.slotsInEpoch
        first == callIn.epoch * n
    IN  /\ Len(callOut) = n * Len(callIn.relays)
        /\ \A sl \in first..(first + n - 1), j \in 1..Len(callIn.relays) :
             Cardinality({k \in 1..Len(callOut) :
                            callOut[k] = [slot |-> sl, relay |-> callIn.relays[j]]}) = 1
        /\ \A k \in 1..Len(callOut) :
             callOut[k].slot >= first /\ callOut[k].slot < first + n

\* The call for a later epoch with two slots and three relays started its items.
C31_Witness ==
  /\ callIn # Nil
  /\ "relays" \in DOMAIN callIn
  /\ callIn.epoch > 0
  /\ Len(callOut) = 6

\* A transaction GetProposerTip must refuse: its receipt carries another hash, or
\* its type is none of 0 to 4
Malformed(tx) == ~tx.receipt.hashOk \/ tx.type \notin 0..4
MalformedSlots ==
  {sl \in PresentSlots :
     \E i \in DOMAIN slotAnswers.node[sl].block.txs : Malformed(slotAnswers.node[sl].block.txs[i])}

\* C32 (malformed transaction): when a transaction of a block of the epoch has a
\* receipt of another hash, or a type that is none of 0 to 4, GetProposerTip
\* returns an error for that block and GetEpochBlockData returns an error and no
\* EpochBlockData: nothing gathered from the earlier slots reaches the caller.
C32_MalformedTxFailsTheEpoch ==
  (slotAnswers # Nil /\ MalformedSlots # {}) =>
    /\ \A sl \in MalformedSlots : GetProposerTip(slotAnswers.node[sl].block).err
    /\ bdResult.err
    /\ bdResult.data = Nil

\* the malformed transaction is in the second slot, after a slot whose block
\* brought a withdrawal and a tip
C32_Witness ==
  /\ slotAnswers # Nil
  /\ MalformedSlots = {SlotBound(slotAnswers.epoch) - 1}
  /\ FirstSlot(slotAnswers.epoch) \in PresentSlots
  /\ slotAnswers.node[FirstSlot(slotAnswers.epoch)].block.withdrawals # <<>>
  /\ ~GetProposerTip(slotAnswers.node[FirstSlot(slotAnswers.epoch)].block).err
  /\ bdResult.err

\* C33 (MEV argument): the amount ProcessEpoch hands the differ for a pool is the
\* pool's entry in the epoch's relay-reward map, or 0 when it has none, and it
\* is a number of its own: whatever the differ leaves in it, the entries of the
\* map keep their values and the other pools are handed theirs.
C33_MevArgumentIsFreshCopy ==
  (callIn # Nil /\ "rewards" \in DOMAIN callIn) =>
    /\ \A poolName \in DOMAIN callOut.handed :
         callOut.handed[poolName] =
           (IF poolName \in DOMAIN callIn.rewards THEN callIn.rewards[poolName] ELSE 0)
    /\ \A poolName \in DOMAIN callIn.rewards :
         callOut.heap[callOut.rewards[poolName]] = callIn.rewards[poolName]

\* both pools have a reward, both were handed to the differ, and the differ left
\* another value in each number it was handed
C33_Witness ==
  /\ callIn # Nil /\ "rewards" \in DOMAIN callIn
  /\ DOMAIN callIn.rewards = PoolNames
  /\ callOut.pending = {}
  /\ callIn.rewards["pool1"] # callIn.rewards["pool2"]
  /\ \A a \in DOMAIN callOut.heap :
       a \notin {callOut.rewards[q] : q \in PoolNames} =>
         callOut.heap[a] \notin {callIn.rewards[q] : q \in PoolNames}

PeCalled == callIn # Nil /\ "failAt" \in DOMAIN callIn
\* the epochs whose state ProcessEpoch asked for besides its own
PrevRequests ==
  {callOut.calls[i].epoch : i \in {j \in DOMAIN callOut.calls :
     callOut.calls[j].fn = "GetBeaconState" /\ j > 3}}

\* C34 (predecessor state): ProcessEpoch(E, prev) asks for the predecessor's
\* state exactly when prev is nil, and the epoch it asks for is E-1 as a
\* natural number: for no E, E = 0 included, is it an epoch greater than E.
C34_PredecessorIsNeverLater ==
  (PeCalled /\ Len(callOut.calls) > 3) =>
    /\ (PrevRequests # {}) = (callIn.prev = Nil)
    /\ \A e \in PrevRequests : U64Le(e, callIn.currentEpoch)

\* An upstream fetch of the epoch failed: one of the calls that return an
\* error did, or a slot's block could not be fetched for the withdrawals
FetchFailed ==
  \/ callIn.failAt \in FailStages \ {"prevState"}
  \/ callIn.failAt = "prevState" /\ callIn.prev = Nil
  \/ \E sl \in DOMAIN callIn.node :
       callIn.node[sl].err # Nil /\ ~IsNotFound(callIn.node[sl].err)

\* C35 (no write before the fetches): ProcessEpoch stores nothing until the
\* proposal duties, the proposed blocks, S_E, S_{E-1} when needed, the relay
\* rewards and the withdrawals of the epoch have all been fetched: when one of
\* them fails it returns an error and the store is as it was.
C35_NoWriteUnlessAllFetched ==
  (PeCalled /\ FetchFailed /\ ~callOut.fatal) => (callOut.err /\ callOut.writes = <<>>)

AllReturned == \A w \in Items : work[w].pc \in Returned
SemaphoresFree == \A relay \in RELAY_SERVERS : relaySem[relay] = 0

\* C36 (termination): when every HTTP request comes back, GetRelayRewards
\* returns in every interleaving of the workers, the semaphores and the
\* consumer, runs where some workers fail while others wait for a semaphore or
\* for the consumer included: in the end every worker has returned, the
\* consumer holds nothing, every semaphore is free and the call has returned.
C36_GetRelayRewardsTerminates ==
  <>(returned # Nil /\ AllReturned /\ results = <<>> /\ SemaphoresFree)

\* the call returned an error after a worker failed, and rewards of other
\* workers had gone through the consumer
C36_Witness ==
  /\ returned # Nil /\ returned.err
  /\ slotsWithRewards # {}
  /\ \E w \in Items : work[w].pc = "failed"
  /\ SemaphoresFree

\* C37 (close after the workers): the results channel is closed only once every
\* worker has returned, on the success path and on the error path: no worker
\* is about to send on the closed channel, and none is running when
\* GetRelayRewards returns.
C37_ClosedOnlyAfterWorkers ==
  /\ closed => AllReturned
  /\ returned # Nil => (closed /\ AllReturned)

\* closed on the error path, after results of other workers were handed over
C37_Witness ==
  /\ closed
  /\ gErr # Nil
  /\ poolRewards # <<>>

\* C38 (once per pass): within one pass no epoch is passed to ProcessEpoch more
\* than once: the missing epochs of the plan, all passed to ProcessEpoch by the
\* time the head call is made, are pairwise distinct and none of them is the
\* head epoch.
C38_NoEpochTwiceInAPass ==
  lpc = "head" =>
    /\ \A i \in DOMAIN missingEpochs : missingEpochs[i] # currentEpoch
    /\ \A i, j \in DOMAIN missingEpochs : i # j => missingEpochs[i] # missingEpochs[j]

\* The epochs of the window [C-W+1, C]
WindowEpochs(C, W) == {e \in 0..C : e >= C - W + 1}
HasRow(e, p) == \E x \in table : x.epoch = e /\ x.pool = p

\* C39 (window filled): with a window W >= 1 and every upstream call and store
\* write succeeding, when a pass is complete and prevEpoch is set to
\* currentEpoch = C, every epoch of [C-W+1, C] has a pools_metrics_summary row
\* of every pool.  Rows are never deleted, so this is stated of the last pass
\* that was completed.
C39_WindowIsFilledAfterAPass ==
  headDone # Nil =>
    \A e \in WindowEpochs(headDone[1], backfillEpochs) : \A p \in Pools : HasRow(e, p)

=============================================================================
